---- MODULE Spec2Model ----
(***************************************************************************)
(* Landslide-risk dashboard: the scoring functions of utils.py, the        *)
(* relational store of models.py and the request handlers of routes.py     *)
(* that write to it.                                                       *)
(*                                                                         *)
(* Units.  Numbers are held in integers:                                   *)
(*   rainfall (mm), temperature (C), soil_moisture (%), vegetation (%)     *)
(*       whole units;                                                      *)
(*   every score and factor contribution    hundredths (7.0  -> 700);      *)
(*   resilience intermediate values         1/72000    (see ResUnit);      *)
(*   coordinates                            1e-4 degree (25.1420->251420). *)
(* Each scoring function computes its value twice: exactly, in those       *)
(* units, and as the doubles of the code (names ending in _f).  round()    *)
(* takes both: the exact value says where the result lies, and at a        *)
(* decimal tie the double says to which side the code rounds.              *)
(***************************************************************************)
EXTENDS Integers, Sequences, FiniteSets, TLC

VARIABLES
    locations,      \* MonitoredLocation rows, in id order
    sensors,        \* SensorData rows, in id order
    events,         \* LandslideEvent rows (never written by the program)
    zones,          \* RiskZone rows (names)
    facilities,     \* EmergencyFacility rows (names)
    assessments,    \* RiskAssessment rows, in id order
    alerts,         \* Alert rows, in id order
    now,            \* datetime.utcnow(), in hours
    inflight,       \* requests between two of their steps
    response        \* what the last handler / function call returned

vars == <<locations, sensors, events, zones, facilities, assessments, alerts,
          now, inflight, response>>

-----------------------------------------------------------------------------
(* Python values *)

\* Python's None for an optional number (vegetation_density, risk_score).
None == -1000000

Min(a, b) == IF a < b THEN a ELSE b
Max(a, b) == IF a > b THEN a ELSE b
\* abs() left out: the signed deviation.
Abs_Signed(a) == a

Abs(a) == IF a < 0 THEN -a ELSE a

\* Python min(1.0, x / cap) in units of 1/cap: min(cap, x).
\* min(1.0, x) left out: the factor is not normalized.
Cap_Unbounded(x, cap) == x

\* A factor above the cap dropped instead of capped.
Cap_Dropped(x, cap) == IF x > cap THEN 0 ELSE x

\* min(cap, x)
Cap(x, cap) == Min(cap, x)

RECURSIVE Flatten(_)
Flatten(ss) == IF ss = <<>> THEN <<>> ELSE Head(ss) \o Flatten(Tail(ss))

\* A str is held as the sequence of its characters: a character of Basic
\* Latin is written as itself, any other (and the quotation mark, the
\* backslash and the grave accent) by its code point ("U+00C9").
\* The characters told apart are those of Basic Latin, of Latin-1
\* Supplement and of Latin Extended-A, the combining dot above (U+0307),
\* and the capital sharp s, the Kelvin sign and the Angstrom sign (U+1E9E,
\* U+212A, U+212B), the only characters outside those blocks that
\* str.lower() turns into characters of them.
\* Lowered: each of these characters that str.lower() changes, with the
\* characters it becomes (U+0130 becomes two).
Lowered ==
    << <<"A", <<"a">>>>, <<"B", <<"b">>>>, <<"C", <<"c">>>>, <<"D", <<"d">>>>,
       <<"E", <<"e">>>>, <<"F", <<"f">>>>, <<"G", <<"g">>>>, <<"H", <<"h">>>>,
       <<"I", <<"i">>>>, <<"J", <<"j">>>>, <<"K", <<"k">>>>, <<"L", <<"l">>>>,
       <<"M", <<"m">>>>, <<"N", <<"n">>>>, <<"O", <<"o">>>>, <<"P", <<"p">>>>,
       <<"Q", <<"q">>>>, <<"R", <<"r">>>>, <<"S", <<"s">>>>, <<"T", <<"t">>>>,
       <<"U", <<"u">>>>, <<"V", <<"v">>>>, <<"W", <<"w">>>>, <<"X", <<"x">>>>,
       <<"Y", <<"y">>>>, <<"Z", <<"z">>>>, <<"U+00C0", <<"U+00E0">>>>,
       <<"U+00C1", <<"U+00E1">>>>, <<"U+00C2", <<"U+00E2">>>>,
       <<"U+00C3", <<"U+00E3">>>>, <<"U+00C4", <<"U+00E4">>>>,
       <<"U+00C5", <<"U+00E5">>>>, <<"U+00C6", <<"U+00E6">>>>,
       <<"U+00C7", <<"U+00E7">>>>, <<"U+00C8", <<"U+00E8">>>>,
       <<"U+00C9", <<"U+00E9">>>>, <<"U+00CA", <<"U+00EA">>>>,
       <<"U+00CB", <<"U+00EB">>>>, <<"U+00CC", <<"U+00EC">>>>,
       <<"U+00CD", <<"U+00ED">>>>, <<"U+00CE", <<"U+00EE">>>>,
       <<"U+00CF", <<"U+00EF">>>>, <<"U+00D0", <<"U+00F0">>>>,
       <<"U+00D1", <<"U+00F1">>>>, <<"U+00D2", <<"U+00F2">>>>,
       <<"U+00D3", <<"U+00F3">>>>, <<"U+00D4", <<"U+00F4">>>>,
       <<"U+00D5", <<"U+00F5">>>>, <<"U+00D6", <<"U+00F6">>>>,
       <<"U+00D8", <<"U+00F8">>>>, <<"U+00D9", <<"U+00F9">>>>,
       <<"U+00DA", <<"U+00FA">>>>, <<"U+00DB", <<"U+00FB">>>>,
       <<"U+00DC", <<"U+00FC">>>>, <<"U+00DD", <<"U+00FD">>>>,
       <<"U+00DE", <<"U+00FE">>>>, <<"U+0100", <<"U+0101">>>>,
       <<"U+0102", <<"U+0103">>>>, <<"U+0104", <<"U+0105">>>>,
       <<"U+0106", <<"U+0107">>>>, <<"U+0108", <<"U+0109">>>>,
       <<"U+010A", <<"U+010B">>>>, <<"U+010C", <<"U+010D">>>>,
       <<"U+010E", <<"U+010F">>>>, <<"U+0110", <<"U+0111">>>>,
       <<"U+0112", <<"U+0113">>>>, <<"U+0114", <<"U+0115">>>>,
       <<"U+0116", <<"U+0117">>>>, <<"U+0118", <<"U+0119">>>>,
       <<"U+011A", <<"U+011B">>>>, <<"U+011C", <<"U+011D">>>>,
       <<"U+011E", <<"U+011F">>>>, <<"U+0120", <<"U+0121">>>>,
       <<"U+0122", <<"U+0123">>>>, <<"U+0124", <<"U+0125">>>>,
       <<"U+0126", <<"U+0127">>>>, <<"U+0128", <<"U+0129">>>>,
       <<"U+012A", <<"U+012B">>>>, <<"U+012C", <<"U+012D">>>>,
       <<"U+012E", <<"U+012F">>>>, <<"U+0130", <<"i", "U+0307">>>>,
       <<"U+0132", <<"U+0133">>>>, <<"U+0134", <<"U+0135">>>>,
       <<"U+0136", <<"U+0137">>>>, <<"U+0139", <<"U+013A">>>>,
       <<"U+013B", <<"U+013C">>>>, <<"U+013D", <<"U+013E">>>>,
       <<"U+013F", <<"U+0140">>>>, <<"U+0141", <<"U+0142">>>>,
       <<"U+0143", <<"U+0144">>>>, <<"U+0145", <<"U+0146">>>>,
       <<"U+0147", <<"U+0148">>>>, <<"U+014A", <<"U+014B">>>>,
       <<"U+014C", <<"U+014D">>>>, <<"U+014E", <<"U+014F">>>>,
       <<"U+0150", <<"U+0151">>>>, <<"U+0152", <<"U+0153">>>>,
       <<"U+0154", <<"U+0155">>>>, <<"U+0156", <<"U+0157">>>>,
       <<"U+0158", <<"U+0159">>>>, <<"U+015A", <<"U+015B">>>>,
       <<"U+015C", <<"U+015D">>>>, <<"U+015E", <<"U+015F">>>>,
       <<"U+0160", <<"U+0161">>>>, <<"U+0162", <<"U+0163">>>>,
       <<"U+0164", <<"U+0165">>>>, <<"U+0166", <<"U+0167">>>>,
       <<"U+0168", <<"U+0169">>>>, <<"U+016A", <<"U+016B">>>>,
       <<"U+016C", <<"U+016D">>>>, <<"U+016E", <<"U+016F">>>>,
       <<"U+0170", <<"U+0171">>>>, <<"U+0172", <<"U+0173">>>>,
       <<"U+0174", <<"U+0175">>>>, <<"U+0176", <<"U+0177">>>>,
       <<"U+0178", <<"U+00FF">>>>, <<"U+0179", <<"U+017A">>>>,
       <<"U+017B", <<"U+017C">>>>, <<"U+017D", <<"U+017E">>>>,
       <<"U+1E9E", <<"U+00DF">>>>,
       <<"U+212A", <<"k">>>>, <<"U+212B", <<"U+00E5">>>> >>

\* The characters among them that str.lower() leaves as they are.
Unchanged ==
    { " ", "!", "U+0022", "#", "$", "%", "&", "'", "(", ")", "*", "+", ",", "-",
      ".", "/", "0", "1", "2", "3", "4", "5", "6", "7", "8", "9", ":", ";",
      "<", "=", ">", "?", "@", "[", "U+005C", "]", "^", "_", "U+0060", "a", "b", "c",
      "d", "e", "f", "g", "h", "i", "j", "k", "l", "m", "n", "o", "p", "q",
      "r", "s", "t", "u", "v", "w", "x", "y", "z", "{", "|", "}", "~",
      "U+00A0", "U+00A1", "U+00A2", "U+00A3", "U+00A4", "U+00A5", "U+00A6",
      "U+00A7", "U+00A8", "U+00A9", "U+00AA", "U+00AB", "U+00AC", "U+00AD",
      "U+00AE", "U+00AF", "U+00B0", "U+00B1", "U+00B2", "U+00B3", "U+00B4",
      "U+00B5", "U+00B6", "U+00B7", "U+00B8", "U+00B9", "U+00BA", "U+00BB",
      "U+00BC", "U+00BD", "U+00BE", "U+00BF", "U+00D7", "U+00DF", "U+00E0",
      "U+00E1", "U+00E2", "U+00E3", "U+00E4", "U+00E5", "U+00E6", "U+00E7",
      "U+00E8", "U+00E9", "U+00EA", "U+00EB", "U+00EC", "U+00ED", "U+00EE",
      "U+00EF", "U+00F0", "U+00F1", "U+00F2", "U+00F3", "U+00F4", "U+00F5",
      "U+00F6", "U+00F7", "U+00F8", "U+00F9", "U+00FA", "U+00FB", "U+00FC",
      "U+00FD", "U+00FE", "U+00FF", "U+0101", "U+0103", "U+0105", "U+0107",
      "U+0109", "U+010B", "U+010D", "U+010F", "U+0111", "U+0113", "U+0115",
      "U+0117", "U+0119", "U+011B", "U+011D", "U+011F", "U+0121", "U+0123",
      "U+0125", "U+0127", "U+0129", "U+012B", "U+012D", "U+012F", "U+0131",
      "U+0133", "U+0135", "U+0137", "U+0138", "U+013A", "U+013C", "U+013E",
      "U+0140", "U+0142", "U+0144", "U+0146", "U+0148", "U+0149", "U+014B",
      "U+014D", "U+014F", "U+0151", "U+0153", "U+0155", "U+0157", "U+0159",
      "U+015B", "U+015D", "U+015F", "U+0161", "U+0163", "U+0165", "U+0167",
      "U+0169", "U+016B", "U+016D", "U+016F", "U+0171", "U+0173", "U+0175",
      "U+0177", "U+017A", "U+017C", "U+017E", "U+017F", "U+0307" }

\* c.lower() for each of the characters
LowerOf ==
    [c \in Unchanged \cup {Lowered[i][1] : i \in 1..Len(Lowered)} |->
        IF c \in Unchanged THEN <<c>>
        ELSE Lowered[CHOOSE i \in 1..Len(Lowered) : Lowered[i][1] = c][2]]

LowerChar(c) == LowerOf[c]

\* s.lower()
Lower(s) == Flatten([i \in 1..Len(s) |-> LowerChar(s[i])])

\* Python's `needle in haystack` on strings.
Contains(haystack, needle) ==
    \E i \in 0..(Len(haystack) - Len(needle)) :
        \A j \in 1..Len(needle) : haystack[i + j] = needle[j]

Mountain == <<"m", "o", "u", "n", "t", "a", "i", "n">>
Hill == <<"h", "i", "l", "l">>
Plain == <<"p", "l", "a", "i", "n">>
Valley == <<"v", "a", "l", "l", "e", "y">>
Riverside == <<"r", "i", "v", "e", "r", "s", "i", "d", "e">>
Forest == <<"f", "o", "r", "e", "s", "t">>
\* terrain_type None and "" are both falsy: one value stands for both.
NoTerrain == <<>>

-----------------------------------------------------------------------------
(* Python's float is an IEEE 754 double: 53 significant bits, each          *)
(* operation rounded to the nearest double, ties to the even one.  A double *)
(* is held here as sign * mant * 2^exp, the mantissa a natural number      *)
(* written in limbs of LimbBits bits, least significant first (TLC's       *)
(* integers are too narrow for it).                                         *)

LimbBits == 14
Limb == 128 * 128
MantBits == 53

\* The natural number n (a TLC integer) in limbs.
RECURSIVE BigOf(_)
BigOf(n) == IF n = 0 THEN <<>> ELSE <<n % Limb>> \o BigOf(n \div Limb)

\* The value of a short limb sequence as a TLC integer.
RECURSIVE BigToInt(_)
BigToInt(a) == IF a = <<>> THEN 0 ELSE a[1] + Limb * BigToInt(Tail(a))

\* Without its leading zero limbs.
RECURSIVE BigTrim(_)
BigTrim(a) ==
    IF a = <<>> THEN <<>>
    ELSE IF a[Len(a)] = 0 THEN BigTrim(SubSeq(a, 1, Len(a) - 1))
    ELSE a

BigLimb(a, i) == IF i <= Len(a) THEN a[i] ELSE 0

RECURSIVE BigAddC(_, _, _, _)
BigAddC(a, b, i, carry) ==
    IF i > Len(a) /\ i > Len(b)
    THEN IF carry = 0 THEN <<>> ELSE <<carry>>
    ELSE LET s == BigLimb(a, i) + BigLimb(b, i) + carry
         IN  <<s % Limb>> \o BigAddC(a, b, i + 1, s \div Limb)

BigAdd(a, b) == BigAddC(a, b, 1, 0)

\* a - b for a >= b
RECURSIVE BigSubC(_, _, _, _)
BigSubC(a, b, i, borrow) ==
    IF i > Len(a) THEN <<>>
    ELSE LET s == BigLimb(a, i) - BigLimb(b, i) - borrow
         IN  IF s < 0
             THEN <<s + Limb>> \o BigSubC(a, b, i + 1, 1)
             ELSE <<s>> \o BigSubC(a, b, i + 1, 0)

BigSub(a, b) == BigTrim(BigSubC(a, b, 1, 0))

\* -1, 0 or 1 as a < b, a = b or a > b (both trimmed)
RECURSIVE BigCmpAt(_, _, _)
BigCmpAt(a, b, i) ==
    IF i = 0 THEN 0
    ELSE IF a[i] < b[i] THEN -1
    ELSE IF a[i] > b[i] THEN 1
    ELSE BigCmpAt(a, b, i - 1)

BigCmp(a, b) ==
    IF Len(a) < Len(b) THEN -1
    ELSE IF Len(a) > Len(b) THEN 1
    ELSE BigCmpAt(a, b, Len(a))

\* a * k for 0 <= k <= Limb
RECURSIVE BigMulSmallC(_, _, _, _)
BigMulSmallC(a, k, i, carry) ==
    IF i > Len(a)
    THEN IF carry = 0 THEN <<>> ELSE <<carry>>
    ELSE LET s == a[i] * k + carry
         IN  <<s % Limb>> \o BigMulSmallC(a, k, i + 1, s \div Limb)

BigMulSmall(a, k) == BigTrim(BigMulSmallC(a, k, 1, 0))

RECURSIVE BigMul(_, _)
BigMul(a, b) ==
    IF b = <<>> THEN <<>>
    ELSE LET rest == BigMul(a, Tail(b))
         IN  BigAdd(BigMulSmall(a, b[1]),
                    IF rest = <<>> THEN <<>> ELSE <<0>> \o rest)

\* <<a \div d, a % d>> for 0 < d <= Limb, from limb i downwards
RECURSIVE BigDivSmallC(_, _, _, _)
BigDivSmallC(a, d, i, rem) ==
    IF i = 0 THEN <<<<>>, rem>>
    ELSE LET cur == rem * Limb + a[i]
             rest == BigDivSmallC(a, d, i - 1, cur % d)
         IN  <<rest[1] \o <<cur \div d>>, rest[2]>>

\* The quotient without its leading zero limbs.
Trimmed(r) == <<BigTrim(r[1]), r[2]>>

BigDivSmall(a, d) == Trimmed(BigDivSmallC(a, d, Len(a), 0))

\* a * 2^k
RECURSIVE BigShl(_, _)
BigShl(a, k) ==
    IF a = <<>> THEN <<>>
    ELSE IF k >= LimbBits THEN <<0>> \o BigShl(a, k - LimbBits)
    ELSE BigMulSmall(a, 2^k)

\* <<quotient, whether there was a remainder>>
Sticky(r) == <<r[1], r[2] # 0>>

\* <<quotient, whether bits were shifted out before or now>>
Lost(r, lost) == <<r[1], lost \/ r[2]>>

\* <<a \div 2^k, whether a bit was shifted out>>
RECURSIVE BigShr(_, _)
BigShr(a, k) ==
    IF a = <<>> THEN <<<<>>, FALSE>>
    ELSE IF k >= LimbBits THEN Lost(BigShr(Tail(a), k - LimbBits), a[1] # 0)
    ELSE Sticky(BigDivSmall(a, 2^k))

RECURSIVE IntBits(_)
IntBits(n) == IF n = 0 THEN 0 ELSE 1 + IntBits(n \div 2)

\* The number of bits of a (trimmed)
BigBits(a) ==
    IF a = <<>> THEN 0 ELSE LimbBits * (Len(a) - 1) + IntBits(a[Len(a)])

BigOdd(a) == a # <<>> /\ a[1] % 2 = 1

\* q = <<quotient, the bit below it>> rounded to the nearest, a tie to the
\* even one; `below` says something lies below that bit.
RoundUp(q, below) ==
    IF q[2] # 0 /\ (below \/ BigOdd(q[1]))
    THEN BigAdd(q[1], <<1>>)
    ELSE q[1]

\* low = <<twice the quotient plus the bit below it, whether anything lies
\* below that>>
RoundHalf(low, inexact) == RoundUp(BigDivSmall(low[1], 2), low[2] \/ inexact)

\* (a + inexact) / 2^k rounded to the nearest natural number, a tie to the
\* even one; `inexact` says a holds less than the number meant.
RoundShift(a, k, inexact) ==
    IF k <= 0 THEN BigShl(a, -k) ELSE RoundHalf(BigShr(a, k - 1), inexact)

\* The double nearest to sign * (mant + inexact) * 2^exp
Float(sign, mant, exp, inexact) ==
    LET k == BigBits(mant) - MantBits
    IN  IF mant = <<>> THEN [sign |-> 1, mant |-> <<>>, exp |-> 0]
        ELSE IF k <= 0 THEN [sign |-> sign, mant |-> mant, exp |-> exp]
        ELSE [sign |-> sign, mant |-> RoundShift(mant, k, inexact),
              exp |-> exp + k]

\* float(n) for an int n, which a double holds exactly
FloatOf(n) ==
    [sign |-> IF n < 0 THEN -1 ELSE 1,
     mant |-> BigOf(IF n < 0 THEN -n ELSE n), exp |-> 0]

FNeg(x) == IF x.mant = <<>> THEN x ELSE [x EXCEPT !.sign = -x.sign]

\* The mantissas of x and y at their common (lower) exponent
Aligned(x, y) ==
    LET e == IF x.exp < y.exp THEN x.exp ELSE y.exp
    IN  [x |-> BigShl(x.mant, x.exp - e), y |-> BigShl(y.mant, y.exp - e),
         exp |-> e]

\* -1, 0 or 1 as the first mantissa is below, at or above the second
CmpAligned(a) == BigCmp(a.x, a.y)

\* -1, 0 or 1 as x < y, x = y or x > y
FCmp(x, y) ==
    IF x.mant = <<>> /\ y.mant = <<>> THEN 0
    ELSE IF x.mant = <<>> THEN -y.sign
    ELSE IF y.mant = <<>> THEN x.sign
    ELSE IF x.sign # y.sign THEN x.sign
    ELSE x.sign * CmpAligned(Aligned(x, y))

\* The sum of two doubles of signs sx and sy with aligned mantissas a, the
\* first compared with the second in c
FAddAligned(sx, sy, a, c) ==
    Float(IF sx = sy \/ c >= 0 THEN sx ELSE sy,
          IF sx = sy THEN BigAdd(a.x, a.y)
          ELSE IF c >= 0 THEN BigSub(a.x, a.y)
          ELSE BigSub(a.y, a.x),
          a.exp, FALSE)

\* FAddAligned with the comparison made
FAddSigned(sx, sy, a) == FAddAligned(sx, sy, a, CmpAligned(a))

FAdd(x, y) ==
    IF x.mant = <<>> THEN y
    ELSE IF y.mant = <<>> THEN x
    ELSE FAddSigned(x.sign, y.sign, Aligned(x, y))

FSub(x, y) == FAdd(x, FNeg(y))

FMul(x, y) ==
    Float(x.sign * y.sign, BigMul(x.mant, y.mant), x.exp + y.exp, FALSE)

\* The mantissa without its trailing zero bits, and their number
RECURSIVE OddPart(_, _)
OddPart(mant, n) ==
    IF BigOdd(mant) THEN <<mant, n>>
    ELSE OddPart(BigDivSmall(mant, 2)[1], n + 1)

\* The double nearest to sign * (q[1] + q[2] / divisor) * 2^exp
FQuotient(sign, exp, q) == Float(sign, q[1], exp, q[2] # 0)

\* x / y for d = <<the odd part of y's mantissa, which fits a limb (y is a
\* small int, or one times a power of two), the number of the zero bits
\* taken off>>; DivBits more quotient bits than a double holds.
DivBits == 70
FDivOdd(x, y, d) ==
    FQuotient(x.sign * y.sign, x.exp - y.exp - d[2] - DivBits,
              BigDivSmall(BigShl(x.mant, DivBits), BigToInt(d[1])))

FDiv(x, y) == FDivOdd(x, y, OddPart(y.mant, 0))

FMin(x, y) == IF FCmp(y, x) < 0 THEN y ELSE x
FMax(x, y) == IF FCmp(y, x) > 0 THEN y ELSE x

\* round(x, ndigits) in units of 10^-ndigits: the decimal nearest to the
\* double, a tie to the even one.
FRound(x, ndigits) ==
    x.sign * BigToInt(RoundShift(BigMulSmall(x.mant, 10^ndigits), -x.exp,
                                 FALSE))

\* The double a decimal literal n/d (0.45 is 45/100) denotes: the nearest.
Dec(n, d) == FDiv(FloatOf(n), FloatOf(d))

\* The rounding made to a whole number whatever ndigits says.
round_whole(n, d, x, ndigits) == 10 * ((2 * n + 10 * d) \div (20 * d))

\* round(x, ndigits), in units of 10^-ndigits, of the double x that the
\* code computed for the exact value n / d (d > 0) of those units.  A double
\* lies within 2^-40 of the exact value, so it rounds as the exact value
\* does unless that is a decimal tie; there the double itself decides.
round(n, d, x, ndigits) ==
    LET q == n \div d
        r == n - q * d
    IN  IF 2 * r < d THEN q
        ELSE IF 2 * r > d THEN q + 1
        ELSE FRound(x, ndigits)

-----------------------------------------------------------------------------
(* utils.py: risk scoring *)

\* One evaluation of the `if` of the loop: "raise" on a missing key (the
\* conjunction short-circuits, so a key is read only when the comparisons
\* before it were true), else whether the record is similar.
\* The similarity test taking a record without readings for a similar one.
SimilarRecord_Lenient(record, rainfall, temperature, soil_moisture) ==
    IF "rainfall" \notin DOMAIN record THEN "yes"
    ELSE IF ~(Abs(record.rainfall - rainfall) < 10) THEN "no"
    ELSE IF "temperature" \notin DOMAIN record THEN "yes"
    ELSE IF ~(Abs(record.temperature - temperature) < 5) THEN "no"
    ELSE IF "soil_moisture" \notin DOMAIN record THEN "yes"
    ELSE IF ~(Abs(record.soil_moisture - soil_moisture) < 10) THEN "no"
    ELSE "yes"

SimilarRecord(record, rainfall, temperature, soil_moisture) ==
    IF "rainfall" \notin DOMAIN record THEN "raise"
    ELSE IF ~(Abs(record.rainfall - rainfall) < 10) THEN "no"
    ELSE IF "temperature" \notin DOMAIN record THEN "raise"
    ELSE IF ~(Abs(record.temperature - temperature) < 5) THEN "no"
    ELSE IF "soil_moisture" \notin DOMAIN record THEN "raise"
    ELSE IF ~(Abs(record.soil_moisture - soil_moisture) < 10) THEN "no"
    ELSE "yes"

\* analyze_historical_data returning the similarity ratio itself, not * 2.0.
analyze_historical_data_unscaled(rainfall, temperature, soil_moisture, historical_data) ==
    IF historical_data = <<>> THEN <<0, 1>>
    ELSE
        LET total_records == Len(historical_data)
            verdict(i) == SimilarRecord(historical_data[i], rainfall,
                                        temperature, soil_moisture)
            similar_conditions_count ==
                Cardinality({i \in 1..total_records : verdict(i) = "yes"})
        IN  IF \E i \in 1..total_records : verdict(i) = "raise"
            THEN <<0, 1>>
            ELSE <<similar_conditions_count, total_records>>

\* analyze_historical_data, as the fraction <<numerator, denominator>> of
\* additional_risk = similarity_ratio * 2.0; any exception gives 0.0.
analyze_historical_data(rainfall, temperature, soil_moisture, historical_data) ==
    IF historical_data = <<>> THEN <<0, 1>>
    ELSE
        LET total_records == Len(historical_data)
            verdict(i) == SimilarRecord(historical_data[i], rainfall,
                                        temperature, soil_moisture)
            similar_conditions_count ==
                Cardinality({i \in 1..total_records : verdict(i) = "yes"})
        IN  IF \E i \in 1..total_records : verdict(i) = "raise"
            THEN <<0, 1>>
            ELSE <<2 * similar_conditions_count, total_records>>

\* additional_risk as a double: similarity_ratio * 2.0, the doubling exact.
Ratio_f(h) == FDiv(FloatOf(h[1]), FloatOf(h[2]))

\* min(1.0, x / cap) as a double
Cap_f(x, cap) == FMin(FloatOf(1), FDiv(FloatOf(x), FloatOf(cap)))

\* The normalisation of the three readings raises TypeError when one of them
\* is None (None / 100.0, None - 15).
ReadingRaises(rainfall, temperature, soil_moisture) ==
    rainfall = None \/ temperature = None \/ soil_moisture = None

\* calculate_risk_score: the returned score in hundredths; 0.0 when the
\* body raised.
calculate_risk_score(rainfall, temperature, soil_moisture, historical_data) ==
    IF ReadingRaises(rainfall, temperature, soil_moisture) THEN 0 ELSE
    LET rainfall_risk == Cap(rainfall, 100)                  \* 1/100
        soil_moisture_risk == Cap(soil_moisture, 100)        \* 1/100
        temperature_risk == Cap(Abs(temperature - 15), 20)   \* 1/20
        \* base_risk * 10.0, in hundredths
        risk_score == 5 * rainfall_risk + 3 * soil_moisture_risk
                      + 10 * temperature_risk
        base_risk_f ==
            FAdd(FAdd(FMul(Dec(5, 10), Cap_f(rainfall, 100)),
                      FMul(Dec(3, 10), Cap_f(soil_moisture, 100))),
                 FMul(Dec(2, 10), Cap_f(Abs(temperature - 15), 20)))
        risk_score_f == FMul(base_risk_f, FloatOf(10))
    IN  IF historical_data # <<>>
        THEN LET h == analyze_historical_data(rainfall, temperature,
                                              soil_moisture, historical_data)
             IN  round(Min(1000 * h[2], risk_score * h[2] + 100 * h[1]), h[2],
                       FMin(FloatOf(10), FAdd(risk_score_f, Ratio_f(h))), 2)
        ELSE round(risk_score, 1, risk_score_f, 2)

\* A terrain_type that is truthy and not a str (the int 5, say).
NonStringTerrain == <<"<int 5>">>

\* terrain_type.lower() raises AttributeError on a value that is not a str.
TerrainRaises(terrain_type) == terrain_type = NonStringTerrain

\* An except clause that answers with a middling score in place of zero.
ZeroRiskData_Middling ==
    [risk_score |-> 500,
     factor_contributions |->
        [rainfall_factor |-> 0, soil_moisture_factor |-> 0,
         temperature_factor |-> 0, terrain_factor |-> 0,
         vegetation_factor |-> 0, historical_factor |-> 0]]

\* The result of calculate_enhanced_risk_score when its body raised.
ZeroRiskData ==
    [risk_score |-> 0,
     factor_contributions |->
        [rainfall_factor |-> 0, soil_moisture_factor |-> 0,
         temperature_factor |-> 0, terrain_factor |-> 0,
         vegetation_factor |-> 0, historical_factor |-> 0]]

\* The terrain lookup testing the keywords in the order plain, hill,
\* mountain.
terrain_risk_plain_first(terrain_type) ==
    IF terrain_type = NoTerrain THEN 500
    ELSE IF Contains(Lower(terrain_type), Plain) THEN 200
    ELSE IF Contains(Lower(terrain_type), Hill) THEN 600
    ELSE IF Contains(Lower(terrain_type), Mountain) THEN 900
    ELSE 500

\* The terrain lookup of calculate_enhanced_risk_score, in thousandths.
terrain_risk(terrain_type) ==
    IF terrain_type = NoTerrain THEN 500
    ELSE IF Contains(Lower(terrain_type), Mountain) THEN 900
    ELSE IF Contains(Lower(terrain_type), Hill) THEN 600
    ELSE IF Contains(Lower(terrain_type), Plain) THEN 200
    ELSE 500

\* vegetation_risk taken as the density itself instead of its inverse.
vegetation_risk_direct(vegetation_density) ==
    IF vegetation_density # None
    THEN Cap(vegetation_density, 100)
    ELSE 50

\* vegetation_risk, in hundredths.
vegetation_risk(vegetation_density) ==
    IF vegetation_density # None
    THEN 100 - Cap(vegetation_density, 100)
    ELSE 50

\* vegetation_risk as a double
vegetation_risk_f(vegetation_density) ==
    IF vegetation_density # None
    THEN FSub(FloatOf(1), Cap_f(vegetation_density, 100))
    ELSE Dec(5, 10)

\* The whole values 0..100 of a reading, for which the weighted
\* contributions are worked out once (a rainfall, soil moisture or
\* vegetation density above 100 counts as 100).
Percents == 0..100

\* rainfall_risk * 0.45 as doubles, by the rainfall up to the cap
rainfall_contributions_f ==
    [x \in Percents |-> FMul(Dec(45, 100), Cap_f(x, 100))]

\* soil_moisture_risk * 0.25 as doubles, by the soil moisture up to the cap
soil_moisture_contributions_f ==
    [x \in Percents |-> FMul(Dec(25, 100), Cap_f(x, 100))]

\* temperature_risk * 0.15 as doubles, by the temperature
temperature_contributions_f ==
    [x \in Percents |-> FMul(Dec(15, 100), Cap_f(Abs(x - 15), 20))]

\* vegetation_risk * 0.05 as doubles, by the density up to the cap
vegetation_contributions_f ==
    [x \in Percents \cup {None} |-> FMul(Dec(5, 100), vegetation_risk_f(x))]

\* terrain_risk * 0.10 as doubles, by the terrain risk in thousandths
terrain_contributions_f ==
    [x \in {200, 500, 600, 900} |-> FMul(Dec(10, 100), Dec(x, 1000))]

\* The weighted contributions as doubles.
rainfall_contribution_f(rainfall) ==
    IF Cap(rainfall, 100) \in Percents
    THEN rainfall_contributions_f[Cap(rainfall, 100)]
    ELSE FMul(Dec(45, 100), Cap_f(rainfall, 100))

soil_moisture_contribution_f(soil_moisture) ==
    IF Cap(soil_moisture, 100) \in Percents
    THEN soil_moisture_contributions_f[Cap(soil_moisture, 100)]
    ELSE FMul(Dec(25, 100), Cap_f(soil_moisture, 100))

temperature_contribution_f(temperature) ==
    IF temperature \in Percents
    THEN temperature_contributions_f[temperature]
    ELSE FMul(Dec(15, 100), Cap_f(Abs(temperature - 15), 20))

vegetation_contribution_f(vegetation_density) ==
    IF vegetation_density = None
    THEN vegetation_contributions_f[None]
    ELSE IF Cap(vegetation_density, 100) \in Percents
    THEN vegetation_contributions_f[Cap(vegetation_density, 100)]
    ELSE FMul(Dec(5, 100), vegetation_risk_f(vegetation_density))

\* x * 10.0
Ten(x) == FMul(x, FloatOf(10))

\* round(contribution * 10.0, 1) of those doubles, in tenths.
rainfall_factors ==
    [x \in Percents |-> FRound(Ten(rainfall_contributions_f[x]), 1)]
soil_moisture_factors ==
    [x \in Percents |-> FRound(Ten(soil_moisture_contributions_f[x]), 1)]
temperature_factors ==
    [x \in Percents |-> FRound(Ten(temperature_contributions_f[x]), 1)]
vegetation_factors ==
    [x \in Percents \cup {None} |->
        FRound(Ten(vegetation_contributions_f[x]), 1)]

\* round(rainfall_contribution * 10.0, 1), in tenths
rainfall_factor(rainfall) ==
    IF Cap(rainfall, 100) \in Percents
    THEN rainfall_factors[Cap(rainfall, 100)]
    ELSE round(45 * Cap(rainfall, 100), 100,
               Ten(rainfall_contribution_f(rainfall)), 1)

soil_moisture_factor(soil_moisture) ==
    IF Cap(soil_moisture, 100) \in Percents
    THEN soil_moisture_factors[Cap(soil_moisture, 100)]
    ELSE round(25 * Cap(soil_moisture, 100), 100,
               Ten(soil_moisture_contribution_f(soil_moisture)), 1)

temperature_factor(temperature) ==
    IF temperature \in Percents
    THEN temperature_factors[temperature]
    ELSE round(75 * Cap(Abs(temperature - 15), 20), 100,
               Ten(temperature_contribution_f(temperature)), 1)

vegetation_factor(vegetation_density) ==
    IF vegetation_density = None
    THEN vegetation_factors[None]
    ELSE IF Cap(vegetation_density, 100) \in Percents
    THEN vegetation_factors[Cap(vegetation_density, 100)]
    ELSE round(5 * vegetation_risk(vegetation_density), 100,
               Ten(vegetation_contribution_f(vegetation_density)), 1)

\* calculate_enhanced_risk_score: risk_score and the six contributions, in
\* hundredths (each is rounded to one decimal by the code).
calculate_enhanced_risk_score(rainfall, temperature, soil_moisture, historical_data, terrain_type, vegetation_density) ==
    IF \/ ReadingRaises(rainfall, temperature, soil_moisture)
       \/ TerrainRaises(terrain_type)
    THEN ZeroRiskData ELSE
    LET \* weighted contributions * 10.0, in thousandths
        rainfall_contribution == 45 * Cap(rainfall, 100)
        soil_moisture_contribution == 25 * Cap(soil_moisture, 100)
        temperature_contribution == 75 * Cap(Abs(temperature - 15), 20)
        terrain_contribution == terrain_risk(terrain_type)
        vegetation_contribution == 5 * vegetation_risk(vegetation_density)
        base == rainfall_contribution + soil_moisture_contribution
                + temperature_contribution + terrain_contribution
                + vegetation_contribution
        h == IF historical_data # <<>>
             THEN analyze_historical_data(rainfall, temperature,
                                          soil_moisture, historical_data)
             ELSE <<0, 1>>
        \* thousandths, as a fraction over h[2]
        total == IF historical_data # <<>>
                 THEN Min(10000 * h[2], base * h[2] + 1000 * h[1])
                 ELSE base * h[2]
        \* the same as doubles
        terrain_contribution_f ==
            terrain_contributions_f[terrain_risk(terrain_type)]
        base_risk_f ==
            FAdd(FAdd(FAdd(FAdd(rainfall_contribution_f(rainfall),
                                soil_moisture_contribution_f(soil_moisture)),
                           temperature_contribution_f(temperature)),
                      terrain_contribution_f),
                 vegetation_contribution_f(vegetation_density))
        historical_contribution_f ==
            IF historical_data # <<>> THEN Ratio_f(h) ELSE FloatOf(0)
        risk_score_f ==
            IF historical_data # <<>>
            THEN FMin(FloatOf(10), FAdd(Ten(base_risk_f),
                                        historical_contribution_f))
            ELSE Ten(base_risk_f)
    IN  [risk_score |-> 10 * round(total, 100 * h[2], risk_score_f, 1),
         factor_contributions |->
            [rainfall_factor |-> 10 * rainfall_factor(rainfall),
             soil_moisture_factor |-> 10 * soil_moisture_factor(soil_moisture),
             temperature_factor |-> 10 * temperature_factor(temperature),
             terrain_factor |->
                 10 * round(terrain_contribution, 100,
                            Ten(terrain_contribution_f), 1),
             vegetation_factor |-> 10 * vegetation_factor(vegetation_density),
             historical_factor |->
                 10 * round(10 * h[1], h[2], historical_contribution_f, 1)]]

-----------------------------------------------------------------------------
(* utils.py: alerts *)

NoAlert == [kind |-> "none"]

\* generate_alert with the tiers compared by > instead of >=.
generate_alert_strict(risk_score, location_lat, location_lng) ==
    IF risk_score > 700
    THEN [kind |-> "alert", risk_level |-> 10, message |-> "CRITICAL",
          location_lat |-> location_lat, location_lng |-> location_lng,
          is_active |-> TRUE]
    ELSE IF risk_score > 500
    THEN [kind |-> "alert", risk_level |-> 8, message |-> "HIGH",
          location_lat |-> location_lat, location_lng |-> location_lng,
          is_active |-> TRUE]
    ELSE IF risk_score > 300
    THEN [kind |-> "alert", risk_level |-> 5, message |-> "MODERATE",
          location_lat |-> location_lat, location_lng |-> location_lng,
          is_active |-> TRUE]
    ELSE NoAlert

\* generate_alert building its Alert with is_active=False.
generate_alert_inactive(risk_score, location_lat, location_lng) ==
    IF risk_score >= 700
    THEN [kind |-> "alert", risk_level |-> 10, message |-> "CRITICAL",
          location_lat |-> location_lat, location_lng |-> location_lng,
          is_active |-> FALSE]
    ELSE IF risk_score >= 500
    THEN [kind |-> "alert", risk_level |-> 8, message |-> "HIGH",
          location_lat |-> location_lat, location_lng |-> location_lng,
          is_active |-> FALSE]
    ELSE IF risk_score >= 300
    THEN [kind |-> "alert", risk_level |-> 5, message |-> "MODERATE",
          location_lat |-> location_lat, location_lng |-> location_lng,
          is_active |-> FALSE]
    ELSE NoAlert

\* generate_alert: the Alert object built (not yet added to the session), or
\* None.  risk_score is in hundredths.
generate_alert(risk_score, location_lat, location_lng) ==
    IF risk_score >= 700
    THEN [kind |-> "alert", risk_level |-> 10, message |-> "CRITICAL",
          location_lat |-> location_lat, location_lng |-> location_lng,
          is_active |-> TRUE]
    ELSE IF risk_score >= 500
    THEN [kind |-> "alert", risk_level |-> 8, message |-> "HIGH",
          location_lat |-> location_lat, location_lng |-> location_lng,
          is_active |-> TRUE]
    ELSE IF risk_score >= 300
    THEN [kind |-> "alert", risk_level |-> 5, message |-> "MODERATE",
          location_lat |-> location_lat, location_lng |-> location_lng,
          is_active |-> TRUE]
    ELSE NoAlert

-----------------------------------------------------------------------------
(* utils.py: infrastructure resilience *)

\* Resilience values are exact multiples of 1/72000 before rounding.
ResUnit == 40 * 90 * 20

\* The names of locations, which the handlers search letter by letter, are
\* held as sequences of one-character strings too.
Mirzapur == <<"M", "i", "r", "z", "a", "p", "u", "r">>
Sonbhadra == <<"S", "o", "n", "b", "h", "a", "d", "r", "a">>
Chandauli == <<"C", "h", "a", "n", "d", "a", "u", "l", "i">>
Varanasi == <<"V", "a", "r", "a", "n", "a", "s", "i">>
Chitrakoot == <<"C", "h", "i", "t", "r", "a", "k", "o", "o", "t">>
Allahabad == <<"A", "l", "l", "a", "h", "a", "b", "a", "d">>
\* "Mirzapur Agricultural Valley"
MirzapurAgriculturalValley ==
    <<"M", "i", "r", "z", "a", "p", "u", "r", " ", "A", "g", "r", "i", "c",
      "u", "l", "t", "u", "r", "a", "l", " ", "V", "a", "l", "l", "e", "y">>
\* "Chitrakoot Mountain Pass"
ChitrakootMountainPass ==
    <<"C", "h", "i", "t", "r", "a", "k", "o", "o", "t", " ", "M", "o", "u",
      "n", "t", "a", "i", "n", " ", "P", "a", "s", "s">>
\* "Sonbhadra Mining Area"
SonbhadraMiningArea ==
    <<"S", "o", "n", "b", "h", "a", "d", "r", "a", " ", "M", "i", "n", "i",
      "n", "g", " ", "A", "r", "e", "a">>
\* "Robertsganj River Bank"
RobertsganjRiverBank ==
    <<"R", "o", "b", "e", "r", "t", "s", "g", "a", "n", "j", " ", "R", "i",
      "v", "e", "r", " ", "B", "a", "n", "k">>
\* "Chandauli Forest Reserve"
ChandauliForestReserve ==
    <<"C", "h", "a", "n", "d", "a", "u", "l", "i", " ", "F", "o", "r", "e",
      "s", "t", " ", "R", "e", "s", "e", "r", "v", "e">>
\* A name no location has.
Lucknow == <<"L", "u", "c", "k", "n", "o", "w">>
\* request.args.get('location') without the parameter is None, which
\* `not location_name` treats like the empty string.
NoName == <<>>

Profile(density, age, road, bridges, bridge_age, drain, utility, emergency, maintenance) ==
    [building_density |-> density, building_age |-> age,
     road_quality |-> road, bridge_count |-> bridges,
     bridge_age |-> bridge_age, drain_capacity |-> drain,
     utility_resilience |-> utility, emergency_readiness |-> emergency,
     recent_maintenance |-> maintenance]

KnownLocations ==
    {Mirzapur, Sonbhadra, Chandauli, Varanasi, Chitrakoot, Allahabad}

infrastructure_database ==
    [n \in KnownLocations |->
        CASE n = Mirzapur -> Profile(65, 15, 72, 4, 10, 60, 68, 75, TRUE)
          [] n = Sonbhadra -> Profile(40, 20, 55, 2, 25, 45, 50, 60, FALSE)
          [] n = Chandauli -> Profile(55, 12, 78, 5, 8, 70, 65, 70, TRUE)
          [] n = Varanasi -> Profile(85, 35, 65, 8, 18, 50, 60, 80, TRUE)
          [] n = Chitrakoot -> Profile(45, 22, 60, 3, 14, 55, 58, 65, FALSE)
          [] n = Allahabad -> Profile(75, 25, 70, 6, 15, 65, 70, 85, TRUE)]

\* A fallback profile with the drain capacity of Sonbhadra.
DefaultProfile_Varied == Profile(60, 20, 65, 4, 15, 45, 65, 70, FALSE)

\* The moderate profile an unrecognized name falls back to.
DefaultProfile == Profile(60, 20, 65, 4, 15, 60, 65, 70, FALSE)

\* infrastructure_data=None
NoProfile == [none |-> TRUE]

\* dict.get(key, default)
Get(d, key, default) == IF key \in DOMAIN d THEN d[key] ELSE default

\* max(lo, min(hi, x)) left out.
Clamp_Unclamped(x, lo, hi) == x

\* max(lo, min(hi, x))
Clamp(x, lo, hi) == Max(lo, Min(hi, x))

\* max(lo, min(hi, x)) on a double, lo and hi ints
Clamp_f(x, lo, hi) == FMax(FloatOf(lo), FMin(FloatOf(hi), x))

\* Python's truth value of recent_maintenance: None, False and 0 are falsy.
Truthy(v) == ToString(v) \notin {ToString(None), ToString(FALSE), ToString(0)}

\* The arithmetic of the try block raises when an operand is None.
ResilienceRaises(risk_score, data) ==
    \/ risk_score = None
    \/ \E k \in DOMAIN data \ {"recent_maintenance"} : data[k] = None

\* building_resilience as a double
building_resilience_f(data) ==
    FDiv(FAdd(Clamp_f(Dec(40 - Get(data, "building_age", 20), 4), 0, 10),
              Clamp_f(Dec(100 - Get(data, "building_density", 60), 10), 0, 10)),
         FloatOf(2))

\* round(building_resilience, 2) of the profiles of the database, which
\* never change: worked out once.
database_building_resilience ==
    [n \in KnownLocations |->
        FRound(building_resilience_f(infrastructure_database[n]), 2)]

\* calculate_infrastructure_resilience.  rnd is np.random.random() in
\* hundredths (0..99); resilience_score and factors are returned in
\* hundredths (the code rounds them to two decimals).
calculate_infrastructure_resilience(location_name, risk_score, infrastructure_data, rnd) ==
    LET data == IF "none" \in DOMAIN infrastructure_data
                THEN IF location_name \in KnownLocations
                     THEN infrastructure_database[location_name]
                     ELSE DefaultProfile
                ELSE infrastructure_data
    IN  IF ResilienceRaises(risk_score, data)
        THEN [location |-> location_name, resilience_score |-> 500,
              factors |-> <<>>, risk_score |-> risk_score, raised |-> TRUE]
        ELSE
        LET \* (40 - age) / 4 clamped to 0..10, in quarters
            building_age_factor ==
                Clamp(40 - Get(data, "building_age", 20), 0, 40)
            \* (100 - density) / 10 clamped, in tenths
            building_density_factor ==
                Clamp(100 - Get(data, "building_density", 60), 0, 100)
            \* in 1/40
            building_resilience ==
                5 * building_age_factor + 2 * building_density_factor
            \* in tenths, not clamped
            road_factor == Get(data, "road_quality", 65)
            \* (50 - age) / 5 clamped, in fifths
            bridge_age_factor ==
                Clamp(50 - Get(data, "bridge_age", 15), 0, 50)
            \* min(10, count * 1.5), in halves
            bridge_count_factor == Min(20, 3 * Get(data, "bridge_count", 4))
            \* in 1/90
            transportation_resilience ==
                3 * road_factor + 6 * bridge_age_factor
                + 15 * bridge_count_factor
            \* in tenths
            drainage_resilience == Get(data, "drain_capacity", 60)
            utility_resilience == Get(data, "utility_resilience", 65)
            emergency_readiness == Get(data, "emergency_readiness", 70)
            maintenance_bonus ==
                IF Truthy(Get(data, "recent_maintenance", FALSE)) THEN 1 ELSE 0
            \* max(0, 10 - risk_score * 0.5), in 1/200
            risk_adaptability == Max(0, 2000 - risk_score)
            \* base_resilience * 0.7 + risk_adaptability * 0.3, in 1/ResUnit
            weighted ==
                315 * building_resilience + 140 * transportation_resilience
                + 1008 * drainage_resilience + 756 * utility_resilience
                + 756 * emergency_readiness + 25200 * maintenance_bonus
                + 108 * risk_adaptability
            \* (np.random.random() * 0.6) - 0.3
            variation == 432 * rnd - 21600
            resilience_score == Clamp(weighted + variation, 0, 10 * ResUnit)
            \* the same as doubles
            road_factor_f == Dec(Get(data, "road_quality", 65), 10)
            bridge_age_factor_f ==
                Clamp_f(Dec(50 - Get(data, "bridge_age", 15), 5), 0, 10)
            bridge_count_factor_f ==
                FMin(FloatOf(10),
                     FMul(FloatOf(Get(data, "bridge_count", 4)), Dec(15, 10)))
            transportation_resilience_f ==
                FDiv(FAdd(FAdd(road_factor_f, bridge_age_factor_f),
                          bridge_count_factor_f), FloatOf(3))
            drainage_resilience_f == Dec(drainage_resilience, 10)
            utility_resilience_f == Dec(utility_resilience, 10)
            emergency_readiness_f == Dec(emergency_readiness, 10)
            base_resilience_f ==
                FAdd(FAdd(FAdd(FAdd(FAdd(
                    FMul(building_resilience_f(data), Dec(25, 100)),
                    FMul(transportation_resilience_f, Dec(25, 100))),
                    FMul(drainage_resilience_f, Dec(2, 10))),
                    FMul(utility_resilience_f, Dec(15, 100))),
                    FMul(emergency_readiness_f, Dec(15, 100))),
                    FMul(FloatOf(maintenance_bonus), Dec(5, 10)))
            risk_adaptability_f ==
                FMax(FloatOf(0),
                     FSub(FloatOf(10), FMul(Dec(risk_score, 100), Dec(5, 10))))
            variation_f ==
                FSub(FMul(Dec(rnd, 100), Dec(6, 10)), Dec(3, 10))
            resilience_score_f ==
                Clamp_f(FAdd(FAdd(FMul(base_resilience_f, Dec(7, 10)),
                                  FMul(risk_adaptability_f, Dec(3, 10))),
                             variation_f), 0, 10)
        IN  [location |-> location_name,
             resilience_score |->
                 round(100 * resilience_score, ResUnit, resilience_score_f, 2),
             factors |->
                [building_resilience |->
                     IF /\ "none" \in DOMAIN infrastructure_data
                        /\ location_name \in KnownLocations
                     THEN database_building_resilience[location_name]
                     ELSE round(100 * building_resilience, 40,
                                building_resilience_f(data), 2),
                 transportation_resilience |->
                     round(100 * transportation_resilience, 90,
                           transportation_resilience_f, 2),
                 drainage_resilience |->
                     round(10 * drainage_resilience, 1,
                           drainage_resilience_f, 2),
                 utility_resilience |->
                     round(10 * utility_resilience, 1,
                           utility_resilience_f, 2),
                 emergency_readiness |->
                     round(10 * emergency_readiness, 1,
                           emergency_readiness_f, 2),
                 maintenance_bonus |->
                     round(100 * maintenance_bonus, 1,
                           FloatOf(maintenance_bonus), 2),
                 risk_adaptability |->
                     round(100 * risk_adaptability, 200,
                           risk_adaptability_f, 2)],
             risk_score |-> risk_score, raised |-> FALSE]

-----------------------------------------------------------------------------
(* models.py: the relational store *)

\* SQLite assigns max(rowid) + 1 to a new row (1 in an empty table).
RECURSIVE MaxId(_)
MaxId(rows) ==
    IF rows = <<>> THEN 0 ELSE Max(rows[1].id, MaxId(Tail(rows)))

\* A commit that also stamps the rows already in the table.
Commit_Restamping(table, pending, stamp) ==
    [i \in 1..Len(table) |-> [table[i] EXCEPT !.timestamp = stamp]]
        \o [i \in 1..Len(pending) |->
               [k \in DOMAIN pending[i] \cup {"id", "timestamp"} |->
                   IF k = "id" THEN MaxId(table) + i
                   ELSE IF k = "timestamp" THEN stamp
                   ELSE pending[i][k]]]

\* db.session.add of each pending object followed by db.session.commit():
\* the rows get their ids and their default timestamp at the flush.
Commit(table, pending, stamp) ==
    table \o [i \in 1..Len(pending) |->
                 [k \in DOMAIN pending[i] \cup {"id", "timestamp"} |->
                     IF k = "id" THEN MaxId(table) + i
                     ELSE IF k = "timestamp" THEN stamp
                     ELSE pending[i][k]]]

\* A rollback that flushes the pending objects instead of discarding them.
Rollback_Commits(table, pending, stamp) == Commit(table, pending, stamp)

\* db.session.rollback(): the pending objects are discarded.
Rollback(table, pending, stamp) == table

\* MonitoredLocation(...) as constructed by init_sample_data.
Location(name, lat, lng, terrain, vegetation) ==
    [name |-> name, location_lat |-> lat, location_lng |-> lng,
     terrain_type |-> terrain, vegetation_density |-> vegetation,
     is_active |-> TRUE]

\* The six locations added on every call.
DistrictLocations ==
    << Location(Mirzapur, 251420, 825625, Valley, 65),
       Location(Chitrakoot, 252100, 809150, Mountain, 25),
       Location(Sonbhadra, 246750, 830620, Hill, 10),
       Location(Varanasi, 253176, 829739, Riverside, 40),
       Location(Chandauli, 252550, 832730, Forest, 85),
       Location(Allahabad, 254358, 818463, Plain, 30) >>

\* The five locations added with the zones and facilities.
SiteLocations ==
    << Location(MirzapurAgriculturalValley, 251420, 825625, Valley, 65),
       Location(ChitrakootMountainPass, 252100, 809150, Mountain, 25),
       Location(SonbhadraMiningArea, 246750, 830620, Hill, 10),
       Location(RobertsganjRiverBank, 247125, 830680, Riverside, 40),
       Location(ChandauliForestReserve, 252550, 832730, Forest, 85) >>

SampleZones ==
    << "Mirzapur Hills", "Chitrakoot Region", "Sonbhadra District",
       "Robertsganj Hills", "Chandauli Highlands" >>

SampleFacilities ==
    << "District Hospital Mirzapur", "Chitrakoot Medical Center",
       "Sonbhadra Rescue Center", "UP State Disaster Response Center",
       "Chandauli Landslide Mitigation Center" >>

\* A row of a table without the rowid the store gives it.
WithId(row, id) ==
    [k \in DOMAIN row \cup {"id"} |-> IF k = "id" THEN id ELSE row[k]]

AddRows(table, rows) ==
    table \o [i \in 1..Len(rows) |-> WithId(rows[i], MaxId(table) + i)]

\* The statement of init_sample_data that raises (the database is locked):
\* none; RiskAssessment.query.delete(); MonitoredLocation.query.delete();
\* the commit of the six locations; RiskZone.query.count(); the commit of
\* the zones, the facilities and the five locations.
ResetFaults ==
    {"none", "delete_assessments", "delete_locations", "commit_locations",
     "count_zones", "commit_samples"}

\* init_sample_data without RiskAssessment.query.delete().
init_sample_data_keeping_assessments(locs, zs, fs, asmts, raises) ==
    LET cleared_locations ==
            IF raises \in {"delete_assessments", "delete_locations"}
            THEN locs ELSE <<>>
        first == AddRows(cleared_locations, DistrictLocations)
    IN  IF raises = "commit_locations"
        THEN [locations |-> locs, zones |-> zs, facilities |-> fs,
              assessments |-> asmts]
        ELSE IF Len(zs) = 0 /\ raises \notin {"count_zones", "commit_samples"}
        THEN [locations |-> AddRows(first, SiteLocations),
              zones |-> zs \o SampleZones,
              facilities |-> fs \o SampleFacilities,
              assessments |-> asmts]
        ELSE [locations |-> first, zones |-> zs, facilities |-> fs,
              assessments |-> asmts]

\* init_sample_data: the tables it leaves behind.  A DELETE that raises is
\* logged by the inner try, which skips what is left of it, and the six
\* locations are added to the rows still there.  The first commit raising,
\* the outer except clause rolls back, the DELETEs included.  The count or
\* the second commit raising, it rolls back what came after the first
\* commit.  The function returns normally in each case.
init_sample_data(locs, zs, fs, asmts, raises) ==
    LET \* RiskAssessment.query.delete(); MonitoredLocation.query.delete()
        cleared_assessments ==
            IF raises = "delete_assessments" THEN asmts ELSE <<>>
        cleared_locations ==
            IF raises \in {"delete_assessments", "delete_locations"}
            THEN locs ELSE <<>>
        first == AddRows(cleared_locations, DistrictLocations)
    IN  IF raises = "commit_locations"
        THEN [locations |-> locs, zones |-> zs, facilities |-> fs,
              assessments |-> asmts]
        ELSE IF Len(zs) = 0 /\ raises \notin {"count_zones", "commit_samples"}
        THEN [locations |-> AddRows(first, SiteLocations),
              zones |-> zs \o SampleZones,
              facilities |-> fs \o SampleFacilities,
              assessments |-> cleared_assessments]
        ELSE [locations |-> first, zones |-> zs, facilities |-> fs,
              assessments |-> cleared_assessments]

-----------------------------------------------------------------------------
(* utils.py: queries and the assessment run *)

Hours24 == 24

\* Stable insertion sort by timestamp (ORDER BY timestamp walks the index,
\* which breaks ties by rowid).
RECURSIVE InsertByTimestamp(_, _)
InsertByTimestamp(sorted, row) ==
    IF sorted = <<>> THEN <<row>>
    ELSE IF sorted[Len(sorted)].timestamp <= row.timestamp
         THEN Append(sorted, row)
         ELSE Append(InsertByTimestamp(SubSeq(sorted, 1, Len(sorted) - 1), row),
                     sorted[Len(sorted)])

RECURSIVE OrderByTimestamp(_)
OrderByTimestamp(rows) ==
    IF rows = <<>> THEN <<>>
    ELSE InsertByTimestamp(OrderByTimestamp(SubSeq(rows, 1, Len(rows) - 1)),
                           rows[Len(rows)])

\* get_recent_sensor_data(hours) at time t.  raises: the SELECT (or a
\* to_dict) raises; the except clause logs the error and returns [].
get_recent_sensor_data(rows, hours, t, raises) ==
    LET time_threshold == t - hours
        recent(row) == row.timestamp >= time_threshold
    IN  IF raises THEN <<>>
        ELSE OrderByTimestamp(SelectSeq(rows, recent))

\* Python None for "no reading".
NoReading == [none |-> TRUE]

\* A lookup that does use the coordinates: the reading at the least squared
\* distance, the earliest of them when several are as near.
find_nearest_sensor_data(lat, lng, sensor_data_list) ==
    IF sensor_data_list = <<>> THEN NoReading
    ELSE LET d(i) == (sensor_data_list[i].location_lat - lat)
                       * (sensor_data_list[i].location_lat - lat)
                     + (sensor_data_list[i].location_lng - lng)
                       * (sensor_data_list[i].location_lng - lng)
             best == CHOOSE i \in 1..Len(sensor_data_list) :
                        \A j \in 1..Len(sensor_data_list) :
                            d(i) < d(j) \/ (d(i) = d(j) /\ i <= j)
         IN  sensor_data_list[best]

\* find_closest_sensor_data
find_closest_sensor_data(lat, lng, sensor_data_list) ==
    IF sensor_data_list = <<>> THEN NoReading
    ELSE sensor_data_list[Len(sensor_data_list)]

\* MonitoredLocation.query.all(): the filter on is_active left out.
ActiveLocations_All(locs) == locs

\* MonitoredLocation.query.filter_by(is_active=True).all()
ActiveLocations(locs) == SelectSeq(locs, LAMBDA l : l.is_active)

\* LandslideEvent.to_dict(): no rainfall / temperature / soil_moisture key.
EventDict(event) ==
    [id |-> event.id, timestamp |-> event.timestamp,
     severity |-> event.severity, location |-> event.location]

\* The alert row to add, without the constructor's bookkeeping.
AlertRow(alert) ==
    [risk_level |-> alert.risk_level, message |-> alert.message,
     location_lat |-> alert.location_lat, location_lng |-> alert.location_lng,
     is_active |-> alert.is_active]

\* The body of the loop of assess_multiple_locations once the reading is
\* found and scored: the RiskAssessment and the Alert it adds to the session
\* and the entry it appends to assessment_results.
AssessScored(location, closest_sensor, risk_data, rnd) ==
    [assessment |->
        [location_id |-> location.id,
         risk_score |-> risk_data.risk_score,
         rainfall_factor |-> risk_data.factor_contributions.rainfall_factor,
         temperature_factor |->
             risk_data.factor_contributions.temperature_factor,
         soil_moisture_factor |->
             risk_data.factor_contributions.soil_moisture_factor,
         historical_factor |->
             risk_data.factor_contributions.historical_factor,
         terrain_factor |-> risk_data.factor_contributions.terrain_factor],
     alert |-> IF risk_data.risk_score >= 500
               THEN generate_alert(risk_data.risk_score,
                                   location.location_lat,
                                   location.location_lng)
               ELSE NoAlert,
     result |->
        [location_id |-> location.id,
         location |-> location,
         risk_score |-> risk_data.risk_score,
         factor_contributions |-> risk_data.factor_contributions,
         sensor_data |->
            [rainfall |-> closest_sensor.rainfall,
             temperature |-> closest_sensor.temperature,
             soil_moisture |-> closest_sensor.soil_moisture],
         resilience_score |->
            calculate_infrastructure_resilience(
                location.name, risk_data.risk_score, NoProfile,
                rnd).resilience_score]]

\* The body of the loop from the reading found: nothing for a location
\* without a reading (`continue`), else the scored outcome.
AssessWithReading(location, closest_sensor, historical_data, rnd) ==
    IF "none" \in DOMAIN closest_sensor
    THEN <<>>
    ELSE << AssessScored(location, closest_sensor,
                calculate_enhanced_risk_score(
                    closest_sensor.rainfall, closest_sensor.temperature,
                    closest_sensor.soil_moisture, historical_data,
                    location.terrain_type, location.vegetation_density),
                rnd) >>

\* One iteration of the loop of assess_multiple_locations for `location`,
\* np.random.random() returning rnd.
AssessOne(location, sensor_data, historical_data, rnd) ==
    AssessWithReading(location,
        find_closest_sensor_data(location.location_lat,
                                 location.location_lng, sensor_data),
        historical_data, rnd)

\* The alerts among the outcomes, one only for each coordinates and tier.
PendingAlerts_Distinct(outcome) ==
    Flatten([j \in 1..Len(outcome) |->
               IF outcome[j].alert.kind = "none" THEN <<>>
               ELSE IF \E k \in 1..(j - 1) :
                          outcome[k].alert = outcome[j].alert
                    THEN <<>>
                    ELSE <<AlertRow(outcome[j].alert)>>])

\* The alerts among the outcomes of the iterations, in order.
PendingAlerts(outcome) ==
    Flatten([j \in 1..Len(outcome) |->
               IF outcome[j].alert.kind = "none" THEN <<>>
               ELSE <<AlertRow(outcome[j].alert)>>])

\* The end of assess_multiple_locations: the commit after the loop, or the
\* except clause.  outcome holds what the completed iterations added.
FinishRun(asmts, alrts, t, raised, outcome) ==
    IF raised
    THEN [assessments |->
              Rollback(asmts, [j \in 1..Len(outcome) |-> outcome[j].assessment],
                       t),
          alerts |-> Rollback(alrts, PendingAlerts(outcome), t),
          results |-> <<>>, raised |-> TRUE,
          discarded |-> Len(outcome) + Len(PendingAlerts(outcome))]
    ELSE [assessments |->
              Commit(asmts, [j \in 1..Len(outcome) |-> outcome[j].assessment],
                     t),
          alerts |-> Commit(alrts, PendingAlerts(outcome), t),
          results |-> [j \in 1..Len(outcome) |-> outcome[j].result],
          raised |-> FALSE, discarded |-> 0]

\* The loop over the `done` first active locations.
RunLoop(active, done, sensor_data, historical_data, rnds) ==
    Flatten([i \in 1..done |->
               AssessOne(active[i], sensor_data, historical_data, rnds[i])])

\* The SELECT of the events and the loop of assess_multiple_locations over
\* the list sensor_data that get_recent_sensor_data returned.
AssessLoop(active, sensor_data, event_rows, failAt, rnds) ==
    [raised |-> failAt # 0 /\ failAt <= Len(active),
     sensor_data |-> sensor_data,
     outcome |->
         RunLoop(active,
                 IF failAt = 0 THEN Len(active)
                 ELSE Min(Len(active), failAt - 1),
                 sensor_data,
                 [i \in 1..Len(event_rows) |-> EventDict(event_rows[i])],
                 rnds)]

\* assess_multiple_locations from its SELECT of the readings to the end of
\* its loop, over the active locations it read before: the readings of the
\* last 24 hours, what the iterations added to the session, and whether one
\* of them raised.  select_raises: the SELECT of the readings raises inside
\* get_recent_sensor_data, which returns [].  failAt = 0: no iteration
\* raises; failAt = i: iteration i does.  rnds[i] is the i-th
\* np.random.random().
AssessRead(active, sensor_rows, event_rows, t, select_raises, failAt, rnds) ==
    AssessLoop(active,
               get_recent_sensor_data(sensor_rows, Hours24, t, select_raises),
               event_rows, failAt, rnds)

\* What /api/assess-locations answers with the list the run returned.
AssessResponse(fin) ==
    [op |-> "assess", status |-> "success", code |-> 200,
     data |-> fin.results, error_logged |-> fin.raised,
     discarded |-> fin.discarded]

-----------------------------------------------------------------------------
(* routes.py: the handlers that write to the store *)

RequiredFields ==
    <<"rainfall", "temperature", "soil_moisture", "location_lat",
      "location_lng">>

\* The first required field the JSON body lacks, or "" when it has all.
FirstMissing(data) ==
    LET missing == {i \in 1..Len(RequiredFields) :
                        RequiredFields[i] \notin DOMAIN data}
    IN  IF missing = {} THEN ""
        ELSE RequiredFields[CHOOSE i \in missing : \A j \in missing : i <= j]

\* request.get_json() returning None: the body is the JSON null.
NullBody == [none |-> TRUE]

\* What the handler is given: whether the request is JSON, and which of
\* the required fields its body has.
Received(body) ==
    [json |-> body.json,
     fields |-> {RequiredFields[i] : i \in
                    {j \in 1..Len(RequiredFields) :
                        RequiredFields[j] \in DOMAIN body.data}}]

\* The first required column the INSERT finds NULL (the five are
\* nullable=False), or "" when every field has a value.
FirstNull(data) ==
    LET null == {i \in 1..Len(RequiredFields) : data[RequiredFields[i]] = None}
    IN  IF null = {} THEN ""
        ELSE RequiredFields[CHOOSE i \in null : \A j \in null : i <= j]

\* The except clause of api_update_sensor_data: the answer after the
\* rollback.
UpdateError(body, message) ==
    [op |-> "update", request |-> Received(body), status |-> "error",
     code |-> 500, message |-> message]

\* No response yet: the handler is between two of its statements on the
\* database.
Committing == [op |-> "committing"]

\* api_update_sensor_data as far as its first commit, and to its response
\* when it has no Alert to add: the SensorData table as committed, the
\* response and the Alert it goes on to add.  The response holds the keys
\* of the JSON object, with `op` for the endpoint, `request` for the request
\* answered and `code` for the HTTP status.  commit_raises: the commit
\* raises (the database is locked).
api_update_sensor_data(body, sensor_rows, t, commit_raises) ==
    IF ~body.json
    THEN [sensors |-> sensor_rows, alert |-> NoAlert,
          response |-> [op |-> "update", request |-> Received(body),
                        status |-> "error", code |-> 400,
                        message |-> "Missing JSON data in request"]]
    ELSE IF "none" \in DOMAIN body.data
    THEN \* `field not in data` raises TypeError; the except clause rolls
         \* back (nothing is pending) and answers 500
         [sensors |-> sensor_rows, alert |-> NoAlert,
          response |->
              UpdateError(body, "argument of type 'NoneType' is not iterable")]
    ELSE IF FirstMissing(body.data) # ""
    THEN [sensors |-> sensor_rows, alert |-> NoAlert,
          response |-> [op |-> "update", request |-> Received(body),
                        status |-> "error", code |-> 400,
                        message |-> "Missing required field"]]
    ELSE
    LET data == body.data
        sensor_data == [rainfall |-> data.rainfall,
                        temperature |-> data.temperature,
                        soil_moisture |-> data.soil_moisture,
                        location_lat |-> data.location_lat,
                        location_lng |-> data.location_lng]
        saved == Commit(sensor_rows, <<sensor_data>>, t)
        risk_score == calculate_risk_score(data.rainfall, data.temperature,
                                           data.soil_moisture, <<>>)
        alert == IF risk_score >= 500
                 THEN generate_alert(risk_score, data.location_lat,
                                     data.location_lng)
                 ELSE NoAlert
    IN  IF FirstNull(data) # ""
        THEN [sensors |-> Rollback(sensor_rows, <<sensor_data>>, t),
              alert |-> NoAlert,
              response |-> UpdateError(body, "NOT NULL constraint failed")]
        ELSE IF commit_raises
        THEN [sensors |-> Rollback(sensor_rows, <<sensor_data>>, t),
              alert |-> NoAlert,
              response |-> UpdateError(body, "database is locked")]
        ELSE IF alert.kind # "none"
        THEN [sensors |-> saved, alert |-> alert, response |-> Committing,
              pending |-> [kind |-> "update", id |-> saved[Len(saved)].id,
                           request |-> Received(body),
                           risk_score |-> risk_score,
                           alert |-> AlertRow(alert)]]
        ELSE [sensors |-> saved, alert |-> alert,
              response |-> [op |-> "update", request |-> Received(body),
                            status |-> "success", code |-> 200,
                            id |-> saved[Len(saved)].id,
                            risk_score |-> risk_score,
                            alert_generated |-> FALSE]]

\* The rest of api_update_sensor_data for a score >= 5.0:
\* db.session.add(alert), the second commit and the response.  When that
\* commit raises, the except clause rolls the Alert back and answers 500;
\* the reading committed before stays.
api_update_sensor_data_alert(pending, alrts, t, commit_raises) ==
    IF commit_raises
    THEN [alerts |-> Rollback(alrts, <<pending.alert>>, t),
          response |-> [op |-> "update", request |-> pending.request,
                        status |-> "error", code |-> 500,
                        message |-> "database is locked"]]
    ELSE [alerts |-> Commit(alrts, <<pending.alert>>, t),
          response |-> [op |-> "update", request |-> pending.request,
                        status |-> "success", code |-> 200,
                        id |-> pending.id,
                        risk_score |-> pending.risk_score,
                        alert_generated |-> TRUE]]

Hours3 == 3

\* [loc for loc in locations if location_name.lower() in loc['name'].lower()]
matching_locations(location_name, locs) ==
    SelectSeq(locs, LAMBDA loc : Contains(Lower(loc.name), Lower(location_name)))

\* get_monitored_locations(): every row of the table.  raises: the SELECT
\* (or a to_dict) raises; the except clause logs the error and returns [].
get_monitored_locations(locs, raises) == IF raises THEN <<>> ELSE locs

\* Python truthiness of the risk_score at hand: None and 0.0 are falsy.
Falsy(risk_score) == risk_score = None \/ risk_score = 0

\* The score api_infrastructure_resilience takes from the readings when
\* `not risk_score` and loc is the first location that matched the name:
\* the basic score of the latest reading of the last 3 hours, else what it
\* had (also when the SELECT raises and get_recent_sensor_data returns []).
LatestRiskScore(loc, risk_score, sensor_rows, t, select_raises) ==
    LET sensor_data == get_recent_sensor_data(sensor_rows, Hours3, t,
                                              select_raises)
    IN  IF sensor_data = <<>>
        THEN risk_score
        ELSE LET closest == find_closest_sensor_data(
                                loc.location_lat, loc.location_lng,
                                sensor_data)
             IN  calculate_risk_score(closest.rainfall, closest.temperature,
                                      closest.soil_moisture, <<>>)

\* The end of api_infrastructure_resilience: `if not risk_score:
\* risk_score = 5.0`, the resilience and the response.  rnd is
\* np.random.random() in hundredths.
ResilienceResponse(location_name, risk_score, looked_up, rnd) ==
    [op |-> "resilience",
     request |-> [location |-> location_name, risk_score |-> risk_score],
     status |-> "success", code |-> 200,
     data |-> calculate_infrastructure_resilience(
                  location_name, IF Falsy(looked_up) THEN 500 ELSE looked_up,
                  NoProfile, rnd)]

\* api_infrastructure_resilience as far as its SELECT of the locations.
\* location_name NoName stands for a missing or empty parameter, risk_score
\* None for a missing or non-numeric one.  It answers there unless it goes
\* on to the readings, for the first location that matches: then `pending`
\* holds what it has at hand.  select_raises: the SELECT of the locations
\* raises inside get_monitored_locations.
api_infrastructure_resilience(location_name, risk_score, locs, select_raises, rnd) ==
    IF location_name = NoName
    THEN [answered |-> TRUE,
          response |->
              [op |-> "resilience",
               request |-> [location |-> location_name,
                            risk_score |-> risk_score],
               status |-> "error", code |-> 400,
               message |-> "Missing location parameter"]]
    ELSE IF ~Falsy(risk_score)
    THEN [answered |-> TRUE,
          response |-> ResilienceResponse(location_name, risk_score,
                                          risk_score, rnd)]
    ELSE LET matching ==
                 matching_locations(
                     location_name,
                     get_monitored_locations(locs, select_raises))
         IN  IF matching = <<>>
             THEN [answered |-> TRUE,
                   response |-> ResilienceResponse(location_name, risk_score,
                                                   risk_score, rnd)]
             ELSE [answered |-> FALSE, response |-> Committing,
                   pending |-> [kind |-> "query", location |-> location_name,
                                risk_score |-> risk_score,
                                loc |-> matching[1]]]

\* The rest of api_infrastructure_resilience: the SELECT of the readings of
\* the last 3 hours and the response.
api_infrastructure_resilience_readings(pending, sensor_rows, t, select_raises, rnd) ==
    ResilienceResponse(pending.location, pending.risk_score,
                       LatestRiskScore(pending.loc, pending.risk_score,
                                       sensor_rows, t, select_raises),
                       rnd)

-----------------------------------------------------------------------------
(* Bounds of the model and the values the handlers are driven with *)

MaxReadings == 2        \* SensorData rows
MaxAssessments == 7     \* RiskAssessment rows before a further run
MaxAlerts == 2          \* Alert rows before a further alert-raising request
MaxInFlight == 1        \* writing requests between two of their steps
MaxQueries == 1         \* resilience queries between their two steps
MaxLocations == 12      \* MonitoredLocation rows after a reset
MaxTime == 25           \* hours of clock
NumStreams == 1         \* random streams a run can draw from

\* Where the sensors stand: at Mirzapur and at Allahabad.
Coordinates == << <<251420, 825625>>, <<254358, 818463>> >>

\* The readings a sensor posts, <<rainfall, temperature, soil_moisture,
\* sensor site>>.  calculate_risk_score gives them -8.2, 3.0, 5.0 and 7.0;
\* the handler accepts any number in any field.
Readings ==
    { <<-202, 22, 40, 1>>, <<22, 22, 40, 2>>, <<62, 22, 40, 1>>,
      <<66, 22, 104, 2>> }

\* np.random.random(), in hundredths: a low, a high and a middle draw.
RandomDraws == <<2, 99, 52>>

RandomStream(seed) ==
    [i \in 1..MaxLocations |->
        RandomDraws[((seed + i) % Len(RandomDraws)) + 1]]

ValidBodies ==
    {[rainfall |-> x[1], temperature |-> x[2], soil_moisture |-> x[3],
      location_lat |-> Coordinates[x[4]][1],
      location_lng |-> Coordinates[x[4]][2]] : x \in Readings}

SampleBody == CHOOSE b \in ValidBodies : TRUE

Without(data, field) == [k \in DOMAIN data \ {field} |-> data[k]]

\* The rows of the location table that get switched off.
Switchable == {2}

\* The iteration in which an assessment run is made to raise: its first
\* (nothing pending yet) or its third (two locations pending).
FailPoints == {1, 3}

\* The required fields a body is sent without, or with null for.
ProbedFields == {RequiredFields[i] : i \in 1..Len(RequiredFields)}

\* The hours that pass between two requests: half a day, or more than the
\* day that assess_multiple_locations looks back.
ClockSteps == {13, 25}

\* "mir", part of the name of two locations in other letter case.
Mir == <<"m", "i", "r">>

\* "Chitrakoot" written with the Kelvin sign for its k.
ChitrakootKelvin == <<"C", "h", "i", "t", "r", "a", "U+212A", "o", "o", "t">>

\* The <<location, risk_score>> parameters sent to
\* /api/infrastructure-resilience: no location; a sample location without a
\* score, with the score 0 and with 3.5; an unknown name with the score 0;
\* and without a score a part of a name, a name of the database, the name
\* of a location that a reset removes and a name with a character that is
\* not of Basic Latin.
ResilienceRequests ==
    { <<NoName, None>>, <<Mirzapur, None>>, <<Mirzapur, 0>>,
      <<Mirzapur, 350>>, <<Lucknow, 0>>, <<Mir, None>>, <<Varanasi, None>>,
      <<RobertsganjRiverBank, None>>, <<ChitrakootKelvin, None>> }

\* LandslideEvent rows the database file may hold; no handler writes them.
EventTables ==
    { <<>>,
      <<[id |-> 1, timestamp |-> 0, severity |-> 7,
         location |-> [lat |-> 251480, lng |-> 825689]]>> }

-----------------------------------------------------------------------------
(* The system: a fresh database after start-up, then the requests.  Each   *)
(* connection works on the SQLite file without a transaction open between  *)
(* its statements, a commit aside, so a handler is served in as many steps *)
(* as it has SELECTs and commits, and other requests are served between    *)
(* them: a sensor update that raises an alert in two commits, an           *)
(* assessment run in the SELECT of the locations, the SELECT of the        *)
(* readings with the loop, and the commit, a resilience query in the       *)
(* SELECT of the locations and the SELECT of the readings.                 *)

\* The requests of a kind that are between two of their steps.
InFlight(kind) == {r \in inflight : r.kind = kind}

\* The sensor updates and assessment runs between two of their steps.
Writing == inflight \ InFlight("query")

\* The server takes a request at any time, or, when it serves its requests
\* one at a time, only while no other is between two of its steps.
Taken(serial) == serial => inflight = {}

Init ==
    LET d == init_sample_data(<<>>, <<>>, <<>>, <<>>, "none")
    IN  /\ locations = d.locations
        /\ zones = d.zones
        /\ facilities = d.facilities
        /\ assessments = d.assessments
        /\ sensors = <<>>
        /\ alerts = <<>>
        /\ events \in EventTables
        /\ now = 0
        /\ inflight = {}
        /\ response = [op |-> "startup"]

\* POST /api/update-sensor-data, as far as its first commit: the reading is
\* stored, and the request is answered unless it has an Alert to add.
UpdateSensorData(body, commit_raises, serial) ==
    /\ Taken(serial)
    /\ Len(sensors) < MaxReadings
    /\ Len(alerts) < MaxAlerts
    /\ \E out \in {api_update_sensor_data(body, sensors, now, commit_raises)} :
           /\ sensors' = out.sensors
           /\ response' = out.response
           /\ IF out.alert.kind # "none"
              THEN /\ Cardinality(Writing) < MaxInFlight
                   /\ inflight' = inflight \cup {out.pending}
              ELSE inflight' = inflight
    /\ UNCHANGED <<locations, events, zones, facilities, assessments, alerts,
                   now>>

\* The second commit of a sensor update, which adds its Alert, and the
\* response.
StoreAlert(commit_raises) ==
    /\ \E pending \in InFlight("update") :
       \E out \in {api_update_sensor_data_alert(pending, alerts, now,
                                                commit_raises)} :
           /\ alerts' = out.alerts
           /\ response' = out.response
           /\ inflight' = inflight \ {pending}
    /\ UNCHANGED <<locations, sensors, events, zones, facilities, assessments,
                   now>>

\* POST /api/assess-locations, as far as the SELECT of the active
\* locations: without one the run returns an empty list at once, and so it
\* does from its except clause when the SELECT raises.
AssessLocations(select_raises, serial) ==
    /\ Taken(serial)
    /\ Len(assessments) < MaxAssessments
    /\ Len(alerts) < MaxAlerts
    /\ Cardinality(Writing) < MaxInFlight
    /\ \E active \in {ActiveLocations(locations)} :
           IF select_raises \/ active = <<>>
           THEN /\ inflight' = inflight
                /\ response' = AssessResponse([results |-> <<>>,
                                              raised |-> select_raises,
                                              discarded |-> 0])
           ELSE /\ inflight' = inflight
                                  \cup {[kind |-> "run", phase |-> "located",
                                         active |-> active]}
                /\ response' = Committing
    /\ UNCHANGED <<locations, sensors, events, zones, facilities, assessments,
                   alerts, now>>

\* The run from the SELECT of the readings and of the events to the end of
\* its loop.  An iteration raising, the except clause rolls back and the
\* run returns an empty list; the SELECT of the readings raising, the run
\* goes on with no reading.
AssessReadings(select_raises, failAt, seed) ==
    /\ \E run \in InFlight("run") :
       /\ run.phase = "located"
       /\ \E out \in {AssessRead(run.active, sensors, events, now,
                                 select_raises, failAt, RandomStream(seed))} :
          IF out.raised
          THEN \E fin \in {FinishRun(assessments, alerts, now, TRUE,
                                     out.outcome)} :
                   /\ assessments' = fin.assessments
                   /\ alerts' = fin.alerts
                   /\ response' = AssessResponse(fin)
                   /\ inflight' = inflight \ {run}
          ELSE /\ inflight' = (inflight \ {run})
                   \cup {[kind |-> "run", phase |-> "scored",
                          active |-> run.active,
                          sensor_data |-> out.sensor_data,
                          outcome |-> out.outcome]}
               /\ response' = Committing
               /\ UNCHANGED <<assessments, alerts>>
    /\ UNCHANGED <<locations, sensors, events, zones, facilities, now>>

\* The commit of the run, which stores what the loop added to the session,
\* and the response; the commit raising, the except clause rolls back.
AssessCommit(commit_raises) ==
    /\ \E run \in InFlight("run") :
       /\ run.phase = "scored"
       /\ \E fin \in {FinishRun(assessments, alerts, now, commit_raises,
                                run.outcome)} :
              /\ assessments' = fin.assessments
              /\ alerts' = fin.alerts
              /\ response' = AssessResponse(fin)
              /\ inflight' = inflight \ {run}
    /\ UNCHANGED <<locations, sensors, events, zones, facilities, now>>

\* POST /api/reset-demo-data (and init_sample_data at a restart): the
\* DELETEs, the INSERTs and the commit are one transaction; the handler
\* answers the same whatever init_sample_data caught.
ResetDemoData(raises, serial) ==
    /\ Taken(serial)
    /\ raises \in {"delete_assessments", "delete_locations"}
           => Len(locations) + Len(DistrictLocations) <= MaxLocations
    /\ \E d \in {init_sample_data(locations, zones, facilities, assessments,
                                  raises)} :
           /\ locations' = d.locations
           /\ zones' = d.zones
           /\ facilities' = d.facilities
           /\ assessments' = d.assessments
    /\ response' = [op |-> "reset", status |-> "success", code |-> 200,
                    message |-> "Demo data reset successfully"]
    /\ UNCHANGED <<sensors, events, alerts, now, inflight>>

\* GET /api/infrastructure-resilience, as far as the SELECT of the
\* locations.
InfrastructureResilience(location_name, risk_score, select_raises, rnd) ==
    /\ \E out \in {api_infrastructure_resilience(location_name, risk_score,
                                                 locations, select_raises,
                                                 rnd)} :
           /\ response' = out.response
           /\ IF out.answered
              THEN inflight' = inflight
              ELSE /\ Cardinality(InFlight("query")) < MaxQueries
                   /\ inflight' = inflight \cup {out.pending}
    /\ UNCHANGED <<locations, sensors, events, zones, facilities, assessments,
                   alerts, now>>

\* The resilience query from the SELECT of the readings to its response.
ResilienceReadings(select_raises, rnd) ==
    /\ \E pending \in InFlight("query") :
           /\ response' = api_infrastructure_resilience_readings(
                              pending, sensors, now, select_raises, rnd)
           /\ inflight' = inflight \ {pending}
    /\ UNCHANGED <<locations, sensors, events, zones, facilities, assessments,
                   alerts, now>>

\* The is_active column is written by no handler; a row is switched off by
\* whoever administers the database.
DeactivateLocation(i) ==
    /\ i <= Len(locations)
    /\ locations[i].is_active
    /\ locations' = [locations EXCEPT ![i].is_active = FALSE]
    /\ response' = [op |-> "idle"]
    /\ UNCHANGED <<sensors, events, zones, facilities, assessments, alerts,
                   now, inflight>>

\* Time passes, between requests or between two statements of one: the
\* clock waits for no request.
Tick(hours) ==
    /\ now + hours <= MaxTime
    /\ now' = now + hours
    /\ response' = [op |-> "idle"]
    /\ UNCHANGED <<locations, sensors, events, zones, facilities, assessments,
                   alerts, inflight>>

\* A request is received or time passes, whatever requests are between two
\* of their steps.
Begin ==
    \/ \E b \in ValidBodies :
          UpdateSensorData([json |-> TRUE, data |-> b], FALSE, FALSE)
    \/ \E f \in ProbedFields :
          UpdateSensorData([json |-> TRUE, data |-> Without(SampleBody, f)],
                           FALSE, FALSE)
    \/ \E f \in ProbedFields :
          UpdateSensorData([json |-> TRUE,
                            data |-> [SampleBody EXCEPT ![f] = None]],
                           FALSE, FALSE)
    \/ UpdateSensorData([json |-> FALSE, data |-> SampleBody], FALSE, FALSE)
    \/ UpdateSensorData([json |-> TRUE, data |-> NullBody], FALSE, FALSE)
    \/ UpdateSensorData([json |-> TRUE, data |-> SampleBody], TRUE, FALSE)
    \/ \E select_raises \in BOOLEAN : AssessLocations(select_raises, FALSE)
    \/ \E raises \in ResetFaults : ResetDemoData(raises, FALSE)
    \/ \E hours \in ClockSteps : Tick(hours)

\* A request received goes on to its next statement on the database.
Continue ==
    \/ \E commit_raises \in BOOLEAN : StoreAlert(commit_raises)
    \/ \E seed \in 0..(NumStreams - 1) : AssessReadings(FALSE, 0, seed)
    \/ \E failAt \in FailPoints : AssessReadings(FALSE, failAt, 0)
    \/ AssessReadings(TRUE, 0, 0)
    \/ \E commit_raises \in BOOLEAN : AssessCommit(commit_raises)

Next == Begin \/ Continue

Spec == Init /\ [][Next]_vars

\* The requests executed one at a time: none is received while another is
\* between two of its steps.  The clock goes on meanwhile.
SerialNext ==
    \/ \E b \in ValidBodies :
          UpdateSensorData([json |-> TRUE, data |-> b], FALSE, TRUE)
    \/ \E f \in ProbedFields :
          UpdateSensorData([json |-> TRUE, data |-> Without(SampleBody, f)],
                           FALSE, TRUE)
    \/ \E f \in ProbedFields :
          UpdateSensorData([json |-> TRUE,
                            data |-> [SampleBody EXCEPT ![f] = None]],
                           FALSE, TRUE)
    \/ UpdateSensorData([json |-> FALSE, data |-> SampleBody], FALSE, TRUE)
    \/ UpdateSensorData([json |-> TRUE, data |-> NullBody], FALSE, TRUE)
    \/ UpdateSensorData([json |-> TRUE, data |-> SampleBody], TRUE, TRUE)
    \/ \E select_raises \in BOOLEAN : AssessLocations(select_raises, TRUE)
    \/ \E raises \in ResetFaults : ResetDemoData(raises, TRUE)
    \/ \E hours \in ClockSteps : Tick(hours)
    \/ Continue

SerialSpec == Init /\ [][SerialNext]_vars

\* The assessment runs over a table in which an administrator switches
\* locations off, between posts of readings, resets and steps of the clock.
AdminNext ==
    \/ \E b \in ValidBodies :
          UpdateSensorData([json |-> TRUE, data |-> b], FALSE, FALSE)
    \/ \E select_raises \in BOOLEAN : AssessLocations(select_raises, FALSE)
    \/ \E raises \in ResetFaults : ResetDemoData(raises, FALSE)
    \/ \E i \in Switchable : DeactivateLocation(i)
    \/ Tick(MaxTime)
    \/ Continue

AdminSpec == Init /\ [][AdminNext]_vars

\* The resilience endpoint, queried between posts of readings, resets and
\* steps of the clock: what it answers depends on the monitored locations,
\* the readings stored and the time.
QueryNext ==
    \/ \E b \in ValidBodies :
          UpdateSensorData([json |-> TRUE, data |-> b], FALSE, FALSE)
    \/ StoreAlert(FALSE)
    \/ \E q \in ResilienceRequests :
          InfrastructureResilience(q[1], q[2], FALSE, RandomDraws[1])
    \/ InfrastructureResilience(Mirzapur, None, TRUE, RandomDraws[1])
    \/ \E select_raises \in BOOLEAN :
          ResilienceReadings(select_raises, RandomDraws[1])
    \/ ResetDemoData("none", FALSE)
    \/ \E hours \in ClockSteps : Tick(hours)

QuerySpec == Init /\ [][QueryNext]_vars

-----------------------------------------------------------------------------
(* The scoring functions called on their own, one call per behaviour: the  *)
(* store stays as start-up left it and `response` holds the call with what *)
(* it returned.                                                            *)

MaxHist == 2            \* records in a historical_data list

\* Readings and densities below the scale, on it, at its end and beyond.
\* With the vegetation density omitted and rainfall at its cap the weighted
\* sum is a decimal tie of round(.., 1): the double decides the digit.
FnRainfall == {-19, 1, 41, 49, 61, 101, 120}
FnTemperature == {-5, 15, 23, 55}
FnSoilMoisture == {-4, 0, 40, 80, 100, 104}
FnVegetation == {None, -40, 0, 25, 100, 120}
\* "Plain Hill" and "plain HILL Mountain": several keywords, in mixed case.
PlainHill == <<"P", "l", "a", "i", "n", " ", "H", "i", "l", "l">>
PlainHillMountain ==
    <<"p", "l", "a", "i", "n", " ", "H", "I", "L", "L", " ",
      "M", "o", "u", "n", "t", "a", "i", "n">>
FnTerrain ==
    <<NoTerrain, Mountain, Hill, Plain, Valley, PlainHill, PlainHillMountain>>
\* What a historical_data list is made of: two sensor-style records and a
\* LandslideEvent dictionary (which has none of the three keys).
HistoricalRecords ==
    << [rainfall |-> 41, temperature |-> 23, soil_moisture |-> 40],
       [rainfall |-> 121, temperature |-> 15, soil_moisture |-> 100],
       [id |-> 1, timestamp |-> 0, severity |-> 7,
        location |-> [lat |-> 251480, lng |-> 825689]] >>

HistoricalList(idx) == [i \in 1..Len(idx) |-> HistoricalRecords[idx[i]]]

HistoricalIndexes ==
    UNION {[1..n -> 1..Len(HistoricalRecords)] : n \in 0..MaxHist}

\* A list of sixteen records of which the first is similar to the reading
\* 41 / 23 / 40: the bonus 0.125 has three decimals.
LongHistory == [i \in 1..16 |-> HistoricalRecords[IF i = 1 THEN 1 ELSE 2]]

\* Scores handed to generate_alert, in hundredths.
FnScores == {0, 299, 300, 301, 499, 500, 501, 699, 700, 701, 1000}
FnCoordinates == {<<251480, 825689>>, <<254358, 818463>>}

FnNames == KnownLocations \cup {RobertsganjRiverBank, Lucknow}
FnRiskScores == {None, -500, 0, 350, 351, 1000, 2500}
\* infrastructure_data a caller may supply: nothing, every key at one value
\* (far below, at, and far above the scale), a dictionary with two keys
\* only, and one holding a None.
FnProfiles ==
    << NoProfile,
       Profile(-500, -500, -500, -500, -500, -500, -500, -500, FALSE),
       Profile(0, 0, 100, 10, 0, 100, 100, 100, TRUE),
       Profile(5000, 5000, 5000, 5000, 5000, 5000, 5000, 5000, TRUE),
       [road_quality |-> 3000, recent_maintenance |-> TRUE],
       Profile(60, None, 65, 4, 15, 60, 65, 70, FALSE) >>
FnRandom == {2, 37, 99}

\* Calls with a reading missing (None), and enhanced calls with those or with
\* a terrain_type that is not a str.
FnBadReadings == {<<None, 23, 40>>, <<41, None, 40>>, <<41, 23, None>>}
FnBadEnhanced ==
    {<<b[1], b[2], b[3], Mountain>> : b \in FnBadReadings}
        \cup {<<41, 23, 40, NonStringTerrain>>}

FnInit ==
    /\ Init
    /\ events = <<>>

CallRiskScore(r, tm, sm, h) ==
    /\ response' = [op |-> "calculate_risk_score", rainfall |-> r,
                    temperature |-> tm, soil_moisture |-> sm,
                    historical_data |-> h,
                    result |-> calculate_risk_score(r, tm, sm, h)]
    /\ UNCHANGED <<locations, sensors, events, zones, facilities, assessments,
                   alerts, now, inflight>>

CallEnhancedRiskScore(r, tm, sm, h, terrain, vegetation) ==
    /\ response' = [op |-> "calculate_enhanced_risk_score", rainfall |-> r,
                    temperature |-> tm, soil_moisture |-> sm,
                    historical_data |-> h, terrain_type |-> terrain,
                    vegetation_density |-> vegetation,
                    result |-> calculate_enhanced_risk_score(
                                   r, tm, sm, h, terrain, vegetation)]
    /\ UNCHANGED <<locations, sensors, events, zones, facilities, assessments,
                   alerts, now, inflight>>

CallGenerateAlert(score, lat, lng) ==
    /\ response' = [op |-> "generate_alert", risk_score |-> score,
                    location_lat |-> lat, location_lng |-> lng,
                    result |-> generate_alert(score, lat, lng)]
    /\ UNCHANGED <<locations, sensors, events, zones, facilities, assessments,
                   alerts, now, inflight>>

CallResilience(name, risk, profile, rnd) ==
    /\ response' = [op |-> "calculate_infrastructure_resilience",
                    location_name |-> name, risk_score |-> risk,
                    infrastructure_data |-> profile, rnd |-> rnd,
                    result |-> calculate_infrastructure_resilience(
                                   name, risk, profile, rnd)]
    /\ UNCHANGED <<locations, sensors, events, zones, facilities, assessments,
                   alerts, now, inflight>>

FnNext ==
    /\ response.op = "startup"
    /\ \/ \E r \in FnRainfall, tm \in FnTemperature, sm \in FnSoilMoisture,
             idx \in HistoricalIndexes :
             CallRiskScore(r, tm, sm, HistoricalList(idx))
       \/ \E r \in FnRainfall, tm \in FnTemperature, sm \in FnSoilMoisture,
             idx \in HistoricalIndexes, k \in 1..Len(FnTerrain),
             v \in FnVegetation :
             CallEnhancedRiskScore(r, tm, sm, HistoricalList(idx), FnTerrain[k], v)
       \/ \E r \in FnRainfall, tm \in FnTemperature, sm \in FnSoilMoisture :
             CallRiskScore(r, tm, sm, LongHistory)
       \/ \E b \in FnBadReadings, idx \in HistoricalIndexes :
             CallRiskScore(b[1], b[2], b[3], HistoricalList(idx))
       \/ \E b \in FnBadEnhanced, idx \in HistoricalIndexes, v \in FnVegetation :
             CallEnhancedRiskScore(b[1], b[2], b[3], HistoricalList(idx), b[4], v)
       \/ \E score \in FnScores, c \in FnCoordinates :
             CallGenerateAlert(score, c[1], c[2])
       \/ \E name \in FnNames, risk \in FnRiskScores, k \in 1..Len(FnProfiles),
             rnd \in FnRandom :
             CallResilience(name, risk, FnProfiles[k], rnd)

FnSpec == FnInit /\ [][FnNext]_vars

-----------------------------------------------------------------------------
(* Properties of the scoring functions, over FnSpec *)

ScoreCalls == {"calculate_risk_score", "calculate_enhanced_risk_score"}

\* rainfall >= 0 and soil_moisture in 0..100
ValidReading ==
    /\ response.rainfall >= 0
    /\ response.soil_moisture \in 0..100

\* vegetation_density absent or in 0..100
ValidVegetation ==
    \/ response.vegetation_density = None
    \/ response.vegetation_density \in 0..100

\* C1: for valid inputs (rainfall >= 0, soil_moisture in 0..100, vegetation
\* density absent or in 0..100; any temperature, terrain and history) the
\* value of calculate_risk_score and the risk_score of
\* calculate_enhanced_risk_score lie in [0, 10].
C1_ScoresWithinRange ==
    /\ (response.op = "calculate_risk_score" /\ ValidReading)
           => response.result \in 0..1000
    /\ (response.op = "calculate_enhanced_risk_score" /\ ValidReading
            /\ ValidVegetation)
           => response.result.risk_score \in 0..1000

\* A valid call with rainfall above 100 mm and similar history, whose sum
\* the code has to cap: it returns exactly 10.0.
C1_Witness ==
    /\ response.op = "calculate_enhanced_risk_score"
    /\ ValidReading /\ ValidVegetation
    /\ response.rainfall > 100
    /\ response.historical_data # <<>>
    /\ response.result.factor_contributions.historical_factor > 0
    /\ response.result.risk_score = 1000

\* C2: calculate_infrastructure_resilience returns a resilience_score in
\* [0, 10] for every location name, risk_score, supplied profile and random
\* perturbation, its exception path included.
C2_ResilienceWithinRange ==
    response.op = "calculate_infrastructure_resilience"
        => response.result.resilience_score \in 0..1000

\* A call whose weighted sum is negative and is clamped to 0.
C2_Witness ==
    /\ response.op = "calculate_infrastructure_resilience"
    /\ ~response.result.raised
    /\ response.infrastructure_data = FnProfiles[2]
    /\ response.result.resilience_score = 0

\* C3: generate_alert gives risk_level 10 exactly when score >= 7.0, 8
\* exactly when 5.0 <= score < 7.0, 5 exactly when 3.0 <= score < 5.0 and no
\* alert exactly when score < 3.0; the alert carries the given coordinates
\* and is active.
C3_AlertTiers ==
    response.op = "generate_alert" =>
        LET score == response.risk_score
            alert == response.result
            level(n) == alert.kind = "alert" /\ alert.risk_level = n
        IN  /\ level(10) <=> score >= 700
            /\ level(8) <=> (500 <= score /\ score < 700)
            /\ level(5) <=> (300 <= score /\ score < 500)
            /\ alert = NoAlert <=> score < 300
            /\ alert.kind = "alert" =>
                   /\ alert.location_lat = response.location_lat
                   /\ alert.location_lng = response.location_lng
                   /\ alert.is_active = TRUE

\* A score exactly on the boundary 7.0, answered with the top tier.
C3_Witness ==
    /\ response.op = "generate_alert"
    /\ response.risk_score = 700
    /\ response.result.kind = "alert"
    /\ response.result.risk_level = 10

\* The score the call held in `response` returns with rainfall r and soil
\* moisture sm in place of its own.
ScoreAt(r, sm) ==
    IF response.op = "calculate_risk_score"
    THEN calculate_risk_score(r, response.temperature, sm,
                              response.historical_data)
    ELSE calculate_enhanced_risk_score(
             r, response.temperature, sm, response.historical_data,
             response.terrain_type, response.vegetation_density).risk_score

\* a <= b for the fractions analyze_historical_data returns
BonusAtMost(a, b) == a[1] * b[2] <= b[1] * a[2]

BonusAt(r, sm) ==
    analyze_historical_data(r, response.temperature, sm,
                            response.historical_data)

\* The score the call returned.
ReturnedScore ==
    IF response.op = "calculate_risk_score"
    THEN response.result
    ELSE response.result.risk_score

\* The call was given numbers for rainfall and soil_moisture.
NumericReading == response.rainfall # None /\ response.soil_moisture # None

\* The rainfall and soil moisture values above those of the call.
RaisedRainfall == {r \in FnRainfall : r > response.rainfall}

RaisedSoilMoisture == {sm \in FnSoilMoisture : sm > response.soil_moisture}

\* C4 as stated: for any fixed temperature, terrain_type, vegetation_density
\* and historical_data, raising rainfall (or soil_moisture) alone never
\* lowers the basic or the enhanced risk score.
C4_MonotoneAsStated ==
    (response.op \in ScoreCalls /\ NumericReading) =>
        /\ \A r \in RaisedRainfall :
               ScoreAt(r, response.soil_moisture)
                   >= ReturnedScore
        /\ \A sm \in RaisedSoilMoisture :
               ScoreAt(response.rainfall, sm)
                   >= ReturnedScore

\* C4, amended: raising rainfall (or soil_moisture) alone never lowers the
\* basic or the enhanced risk score provided the historical bonus of
\* analyze_historical_data at the raised value is not smaller than at the
\* original one, as it is whenever historical_data is absent or empty.
C4_MonotoneWithBonusKept ==
    (response.op \in ScoreCalls /\ NumericReading) =>
        LET bonus == BonusAt(response.rainfall, response.soil_moisture)
        IN  /\ \A r \in RaisedRainfall :
                   BonusAtMost(bonus, BonusAt(r, response.soil_moisture))
                       => ScoreAt(r, response.soil_moisture) >= ReturnedScore
            /\ \A sm \in RaisedSoilMoisture :
                   BonusAtMost(bonus, BonusAt(response.rainfall, sm))
                       => ScoreAt(response.rainfall, sm) >= ReturnedScore

\* A call with similar history whose score strictly grows with more rain
\* that is still similar (the bonus is kept), and a higher rainfall beyond
\* the similarity window at which the bonus is lost.
C4_Witness ==
    /\ response.op = "calculate_enhanced_risk_score"
    /\ response.historical_data # <<>>
    /\ BonusAt(response.rainfall, response.soil_moisture)[1] > 0
    /\ \E r \in RaisedRainfall :
          /\ BonusAtMost(BonusAt(response.rainfall, response.soil_moisture),
                         BonusAt(r, response.soil_moisture))
          /\ ScoreAt(r, response.soil_moisture)
                 > ScoreAt(response.rainfall, response.soil_moisture)
    /\ \E r \in RaisedRainfall :
          BonusAt(r, response.soil_moisture)[1] = 0

-----------------------------------------------------------------------------
(* Properties of the running system, over Spec *)

\* The readings of the last 24 hours, as the state holds them.
RecentReadings == get_recent_sensor_data(sensors, Hours24, now, FALSE)

\* The rows a step appended to a table.
Added(old, new) == SubSeq(new, Len(old) + 1, Len(new))

\* No row of the table changed or went away in the step.
Kept(old, new) ==
    /\ Len(new) >= Len(old)
    /\ SubSeq(new, 1, Len(old)) = old

\* C5 as stated: every time the sensor update endpoint or the assessment run
\* computes a risk score >= 3.0 and completes successfully, an Alert row for
\* that score is persisted.
C5_AlertForEveryScoreFrom3 ==
    [][ /\ (response'.op = "update" /\ response'.status = "success"
                /\ response'.risk_score >= 300)
               => Len(Added(alerts, alerts')) = 1
        /\ (response'.op = "assess" /\ ~response'.error_logged)
               => Len(Added(alerts, alerts'))
                      = Cardinality({j \in 1..Len(response'.data) :
                                        response'.data[j].risk_score >= 300})
      ]_vars

\* C6: an assessment run in which an exception occurs rolls back and returns
\* an empty list; none of the RiskAssessment or Alert rows added earlier in
\* the run reaches the committed store.
C6_RunAllOrNothing ==
    [][ (response'.op = "assess" /\ response'.error_logged)
            => /\ assessments' = assessments
               /\ alerts' = alerts
               /\ response'.data = <<>>
      ]_vars

\* A run that raised after it had added assessments and an alert for
\* earlier locations.
C6_Witness ==
    /\ response.op = "assess"
    /\ response.error_logged
    /\ response.discarded > 2
    /\ RecentReadings # <<>>

\* The assessment runs between two of their steps that have come to the
\* given step.
RunsAt(requests, phase) ==
    {r \in requests : r.kind = "run" /\ r.phase = phase}

\* A run's SELECT of the locations takes each active row once and no
\* inactive one.
ReadsActiveLocations ==
    \A run \in RunsAt(inflight', "located") \ RunsAt(inflight, "located") :
        /\ \A i \in 1..Len(locations) :
              Cardinality({j \in 1..Len(run.active) :
                              run.active[j] = locations[i]})
                  = IF locations[i].is_active THEN 1 ELSE 0
        /\ \A j \in 1..Len(run.active) :
              \E i \in 1..Len(locations) : locations[i] = run.active[j]

\* The run has added one assessment for each location it read, in their
\* order.
OnePerLocationRead(run) ==
    /\ Len(run.outcome) = Len(run.active)
    /\ \A j \in 1..Len(run.active) :
          run.outcome[j].assessment.location_id = run.active[j].id

\* The commit of a successful run appends exactly the assessments its loop
\* added, removes and changes none, and the run returns as many entries.
CommitsWhatItAdded ==
    (response'.op = "assess" /\ ~response'.error_logged)
        => LET new == Added(assessments, assessments')
           IN  /\ Kept(assessments, assessments')
               /\ Len(response'.data) = Len(new)
               /\ \/ \E run \in RunsAt(inflight, "scored")
                                    \ RunsAt(inflight', "scored") :
                        /\ Len(new) = Len(run.outcome)
                        /\ \A j \in 1..Len(new) :
                              new[j].location_id
                                  = run.outcome[j].assessment.location_id
                  \/ /\ new = <<>>
                     /\ \A i \in 1..Len(locations) : ~locations[i].is_active

\* C7 as stated: a successful run persists exactly one new RiskAssessment for
\* each active MonitoredLocation and none for an inactive one, provided a
\* reading of the last 24 hours exists; without one it persists nothing and
\* returns an empty list.  The returned list has one entry per persisted
\* assessment.
C7_AsStated ==
    [][ /\ ReadsActiveLocations
        /\ \A run \in RunsAt(inflight', "scored")
                          \ RunsAt(inflight, "scored") :
              LET fresh == \E i \in 1..Len(sensors) :
                               sensors[i].timestamp >= now - Hours24
              IN  IF fresh THEN OnePerLocationRead(run)
                  ELSE run.outcome = <<>>
        /\ CommitsWhatItAdded
      ]_vars

\* C7: a successful run persists exactly one new RiskAssessment for each
\* active MonitoredLocation and none for an inactive one, provided its
\* lookup of the readings of the last 24 hours returns at least one; when
\* there is none, or when the lookup raises (get_recent_sensor_data then
\* returns an empty list), the run persists nothing and returns an empty
\* list.  The returned list has one entry per persisted assessment.  The
\* lookup returns the stored readings of the last 24 hours or, raising, the
\* empty list.
C7_OneAssessmentPerLocationRead ==
    [][ /\ ReadsActiveLocations
        /\ \A run \in RunsAt(inflight', "scored")
                          \ RunsAt(inflight, "scored") :
              /\ run.sensor_data \in {RecentReadings, <<>>}
              /\ IF run.sensor_data # <<>> THEN OnePerLocationRead(run)
                 ELSE run.outcome = <<>>
        /\ CommitsWhatItAdded
      ]_vars

\* A successful run over the locations of the sample data, all of them
\* active, that persisted one assessment for each and returned as many
\* entries.
C7_Witness ==
    /\ response.op = "assess"
    /\ ~response.error_logged
    /\ response.data # <<>>
    /\ \A i \in 1..Len(locations) : locations[i].is_active
    /\ Len(response.data) = Len(locations)
    /\ Len(assessments) = Len(response.data)
    /\ \A i \in 1..Len(locations) :
          assessments[i].location_id = locations[i].id

\* C8 as stated: once committed, a RiskAssessment row is neither changed nor
\* removed by any later operation.
C8_AssessmentsNeverRemoved ==
    [][ Kept(assessments, assessments') ]_vars

\* The most recent of the readings of the last 24 hours, None without one.
LatestReading ==
    IF RecentReadings = <<>> THEN NoReading
    ELSE RecentReadings[Len(RecentReadings)]

\* The values of a reading that a result carries.
ReadingValues(reading) ==
    [rainfall |-> reading.rainfall,
     temperature |-> reading.temperature,
     soil_moisture |-> reading.soil_moisture]

\* Whatever the coordinates of a location, the lookup gives the last reading
\* of the list, which no reading of the list is later than, and None for the
\* empty list.
ClosestIsLast ==
    /\ \A i \in 1..Len(RecentReadings) :
          RecentReadings[i].timestamp <= LatestReading.timestamp
    /\ \A i \in 1..Len(locations) :
          /\ find_closest_sensor_data(locations[i].location_lat,
                                      locations[i].location_lng,
                                      RecentReadings)
                 = LatestReading
          /\ find_closest_sensor_data(locations[i].location_lat,
                                      locations[i].location_lng, <<>>)
                 = NoReading

\* C9: find_closest_sensor_data returns the last element of the reading list
\* (the most recent reading) whatever the coordinates, and None for an empty
\* list; every location assessed in one run is scored from that same reading
\* (the last of the list the run's lookup returned, which is the stored
\* readings of the last 24 hours by ascending timestamp, or the empty list
\* when the lookup raises; every entry of the list the run returns carries
\* its values).
C9_ClosestIsLatest ==
    /\ []ClosestIsLast
    /\ [][ /\ \A run \in RunsAt(inflight', "scored")
                             \ RunsAt(inflight, "scored") :
                 /\ run.sensor_data \in {RecentReadings, <<>>}
                 /\ \A j \in 1..Len(run.outcome) :
                       run.outcome[j].result.sensor_data
                           = ReadingValues(
                                 run.sensor_data[Len(run.sensor_data)])
           /\ (response'.op = "assess" /\ ~response'.error_logged)
                  => /\ \A run \in RunsAt(inflight, "scored")
                                       \ RunsAt(inflight', "scored") :
                           \A j \in 1..Len(run.outcome) :
                               response'.data[j] = run.outcome[j].result
                     /\ \A j, k \in 1..Len(response'.data) :
                           response'.data[j].sensor_data
                               = response'.data[k].sensor_data
         ]_vars

\* A run over two recent readings taken at different times and sites with
\* different values, the earlier one at the very place of an assessed
\* location: every entry returned carries the later reading.
C9_Witness ==
    /\ response.op = "assess"
    /\ Len(response.data) > 1
    /\ Len(RecentReadings) = 2
    /\ RecentReadings[1].timestamp < RecentReadings[2].timestamp
    /\ RecentReadings[1].rainfall # RecentReadings[2].rainfall
    /\ RecentReadings[1].location_lat # RecentReadings[2].location_lat
    /\ \E i \in 1..Len(locations) :
          /\ locations[i].is_active
          /\ locations[i].location_lat = RecentReadings[1].location_lat
          /\ locations[i].location_lng = RecentReadings[1].location_lng
    /\ \A j \in 1..Len(response.data) :
          response.data[j].sensor_data = ReadingValues(RecentReadings[2])

\* C10: every Alert row has is_active true in every reachable state, and no
\* operation changes or deletes an Alert: the active alerts never get fewer.
C10_AlertsStayActive ==
    /\ [](\A i \in 1..Len(alerts) : alerts[i].is_active = TRUE)
    /\ [][ Kept(alerts, alerts') ]_vars

\* Alerts of a sensor update and of an assessment run, still there and
\* active after a reset of the demo data.
C10_Witness ==
    /\ response.op = "reset"
    /\ Len(alerts) >= 2
    /\ \A i \in 1..Len(alerts) : alerts[i].is_active = TRUE

\* An Alert row without the id and the timestamp the store gave it.
AlertContent(row) ==
    [risk_level |-> row.risk_level, message |-> row.message,
     location_lat |-> row.location_lat, location_lng |-> row.location_lng,
     is_active |-> row.is_active]

\* C11: alerts are not deduplicated.  Every sensor update that scores >= 5.0
\* adds one Alert row and every successful assessment run adds one Alert row
\* for each location it scored >= 5.0, whatever alerts the table already
\* holds: repeating the operation N times gives N new rows.
C11_NoDeduplication ==
    [][ /\ (response'.op = "update" /\ response'.status = "success")
               => /\ Kept(alerts, alerts')
                  /\ Len(Added(alerts, alerts'))
                         = IF response'.risk_score >= 500 THEN 1 ELSE 0
        /\ (response'.op = "assess" /\ ~response'.error_logged)
               => /\ Kept(alerts, alerts')
                  /\ Len(Added(alerts, alerts'))
                         = Cardinality({j \in 1..Len(response'.data) :
                                           response'.data[j].risk_score >= 500})
      ]_vars

\* The same alert-raising sensor update made twice: two Alert rows that
\* differ in their id only.
C11_Witness ==
    /\ response.op = "update"
    /\ response.status = "success"
    /\ response.alert_generated
    /\ \E i, j \in 1..Len(alerts) :
          /\ i < j
          /\ j = Len(alerts)
          /\ AlertContent(alerts[i]) = AlertContent(alerts[j])

\* C12 as stated: in every reachable state every persisted RiskAssessment
\* has risk_score in [0, 10].
C12_AssessmentScoresWithinRange ==
    \A i \in 1..Len(assessments) : assessments[i].risk_score \in 0..1000

\* C13 as stated: every persisted sensor reading has rainfall >= 0 and
\* soil_moisture in 0..100.
C13_ReadingsWithinRange ==
    \A i \in 1..Len(sensors) :
        /\ sensors[i].rainfall >= 0
        /\ sensors[i].soil_moisture \in 0..100

\* round(n / d) for the exact quotient n / d (d > 0): the nearest integer,
\* and either neighbour at a tie, where the binary value the code holds
\* decides.
Nearest(n, d) ==
    LET q == n \div d
        r == n - q * d
    IN  IF 2 * r < d THEN {q}
        ELSE IF 2 * r > d THEN {q + 1}
        ELSE {q, q + 1}

\* The same in tenths, as hundredths.
NearestTenth(n, d) == {10 * v : v \in Nearest(n, d)}

\* The call raised no exception: numbers for the three readings and a
\* terrain_type that is a str or absent.
WellTypedCall ==
    /\ response.rainfall # None
    /\ response.temperature # None
    /\ response.soil_moisture # None
    /\ response.op = "calculate_enhanced_risk_score"
           => response.terrain_type # NonStringTerrain

\* The terrain risk the contract states, in thousandths of the 0..10 scale
\* (0.10 * terrain_risk * 10), by the keywords each terrain of FnTerrain
\* contains.
StatedTerrainTerm ==
    IF response.terrain_type \in {Mountain, PlainHillMountain} THEN 900
    ELSE IF response.terrain_type \in {Hill, PlainHill} THEN 600
    ELSE IF response.terrain_type = Plain THEN 200
    ELSE 500

\* 0.05 * vegetation_risk * 10 as stated, in thousandths.
StatedVegetationTerm ==
    IF response.vegetation_density = None THEN 250
    ELSE 5 * (100 - Min(100, response.vegetation_density))

\* 10 * (0.45*min(1, rainfall/100) + 0.25*min(1, soil_moisture/100)
\*       + 0.15*min(1, |temperature-15|/20) + 0.10*terrain_risk
\*       + 0.05*vegetation_risk), in thousandths.
StatedEnhancedSum ==
    45 * Min(100, response.rainfall) + 25 * Min(100, response.soil_moisture)
        + 75 * Min(20, Max(response.temperature - 15, 15 - response.temperature))
        + StatedTerrainTerm + StatedVegetationTerm

\* C14: without historical data, calculate_enhanced_risk_score returns
\* risk_score = round(10 * (0.45*min(1, rainfall/100)
\* + 0.25*min(1, soil_moisture/100) + 0.15*min(1, |temperature-15|/20)
\* + 0.10*terrain_risk + 0.05*vegetation_risk), 1), with terrain_risk
\* 0.9/0.6/0.2 for mountain/hill/plain and 0.5 otherwise or when absent, and
\* vegetation_risk 1 - min(1, density/100), or 0.5 when the density is absent.
C14_EnhancedFormula ==
    (/\ response.op = "calculate_enhanced_risk_score"
     /\ response.historical_data = <<>>
     /\ WellTypedCall)
        => response.result.risk_score \in NearestTenth(StatedEnhancedSum, 100)

\* A call without history on a mountain with 25 % vegetation:
\* 1.845 + 1.0 + 0.6 + 0.9 + 0.375 = 4.72, returned as 4.7.
C14_Witness ==
    /\ response.op = "calculate_enhanced_risk_score"
    /\ response.historical_data = <<>>
    /\ response.rainfall = 41 /\ response.temperature = 23
    /\ response.soil_moisture = 40
    /\ response.terrain_type = Mountain /\ response.vegetation_density = 25
    /\ response.result.risk_score = 470

\* 10 * (0.5*min(1, rainfall/100) + 0.3*min(1, soil_moisture/100)
\*       + 0.2*min(1, |temperature-15|/20)), in hundredths.
StatedBasicSum ==
    5 * Min(100, response.rainfall) + 3 * Min(100, response.soil_moisture)
        + 10 * Min(20, Max(response.temperature - 15, 15 - response.temperature))

\* C15: without historical data, calculate_risk_score returns
\* round(10 * (0.5*min(1, rainfall/100) + 0.3*min(1, soil_moisture/100)
\* + 0.2*min(1, |temperature-15|/20)), 2); in particular rainfall=120,
\* temperature=15, soil_moisture=80 gives 7.4.
C15_BasicFormula ==
    (/\ response.op = "calculate_risk_score"
     /\ response.historical_data = <<>>
     /\ WellTypedCall)
        => /\ response.result = StatedBasicSum
           /\ (/\ response.rainfall = 120 /\ response.temperature = 15
               /\ response.soil_moisture = 80) => response.result = 740

\* The example call of the contract, made and answered with 7.4.
C15_Witness ==
    /\ response.op = "calculate_risk_score"
    /\ response.historical_data = <<>>
    /\ response.rainfall = 120 /\ response.temperature = 15
    /\ response.soil_moisture = 80
    /\ response.result = 740

\* The record carries the three fields the similarity test reads.
HasReadings(record) ==
    {"rainfall", "temperature", "soil_moisture"} \subseteq DOMAIN record

Differ(a, b) == Max(a - b, b - a)

\* The records of the call's historical_data whose rainfall, temperature and
\* soil_moisture differ from the current values by less than 10, 5 and 10.
StatedSimilar ==
    {i \in 1..Len(response.historical_data) :
        LET record == response.historical_data[i]
        IN  /\ HasReadings(record)
            /\ Differ(record.rainfall, response.rainfall) < 10
            /\ Differ(record.temperature, response.temperature) < 5
            /\ Differ(record.soil_moisture, response.soil_moisture) < 10}

\* The call's result is the weighted sum plus the bonus num/den, clamped to
\* at most 10 and rounded, and the enhanced historical_factor is the bonus
\* rounded to one decimal.
BonusApplied(num, den) ==
    /\ response.op = "calculate_risk_score" =>
           response.result
               \in Nearest(Min(1000 * den, StatedBasicSum * den + 100 * num),
                           den)
    /\ response.op = "calculate_enhanced_risk_score" =>
           /\ response.result.risk_score
                  \in NearestTenth(Min(10000 * den,
                                       StatedEnhancedSum * den + 1000 * num),
                                   100 * den)
           /\ response.result.factor_contributions.historical_factor
                  \in NearestTenth(10 * num, den)

\* The call's result is the weighted sum alone.
NothingAdded ==
    /\ response.op = "calculate_risk_score" =>
           response.result = StatedBasicSum
    /\ response.op = "calculate_enhanced_risk_score" =>
           /\ response.result.risk_score
                  \in NearestTenth(StatedEnhancedSum, 100)
           /\ response.result.factor_contributions.historical_factor = 0

\* C16 as stated: when a non-empty historical_data list is supplied, the
\* historical bonus equals 2 * (number of records whose rainfall,
\* temperature and soil_moisture differ from the current values by less than
\* 10, 5 and 10) / (total number of records); it is added to the weighted
\* score and the total is clamped to at most 10.  An empty or absent list
\* adds nothing.
C16_BonusAsStated ==
    (response.op \in ScoreCalls /\ WellTypedCall) =>
        IF response.historical_data = <<>>
        THEN NothingAdded
        ELSE BonusApplied(2 * Cardinality(StatedSimilar),
                          Len(response.historical_data))

\* C16, amended: the bonus is 2 * similar / total when every record of the
\* non-empty list carries rainfall, temperature and soil_moisture; when some
\* record carries none of them the lookup fails inside
\* analyze_historical_data and the bonus is 0.0, whatever the other records
\* are.  The bonus is added to the weighted score, the total is clamped to
\* at most 10, and an empty or absent list adds nothing.
C16_BonusWithCompleteRecords ==
    (response.op \in ScoreCalls /\ WellTypedCall) =>
        IF response.historical_data = <<>>
        THEN NothingAdded
        ELSE IF \A i \in 1..Len(response.historical_data) :
                    HasReadings(response.historical_data[i])
        THEN /\ BonusApplied(2 * Cardinality(StatedSimilar),
                             Len(response.historical_data))
             /\ 2 * Cardinality(StatedSimilar)
                    <= 2 * Len(response.historical_data)
        ELSE BonusApplied(0, 1)

\* A basic call with two complete records of which one is similar: the
\* bonus 2 * 1 / 2 = 1.0 is added to 4.05.
C16_Witness ==
    /\ response.op = "calculate_risk_score"
    /\ response.rainfall = 41 /\ response.temperature = 23
    /\ response.soil_moisture = 40
    /\ Len(response.historical_data) = 2
    /\ \A i \in 1..2 : HasReadings(response.historical_data[i])
    /\ Cardinality(StatedSimilar) = 1
    /\ response.result = 505

\* The keywords each terrain of FnTerrain contains, whatever their case.
Keywords(terrain) ==
    IF terrain = Mountain THEN {"mountain"}
    ELSE IF terrain = Hill THEN {"hill"}
    ELSE IF terrain = Plain THEN {"plain"}
    ELSE IF terrain = PlainHill THEN {"plain", "hill"}
    ELSE IF terrain = PlainHillMountain THEN {"plain", "hill", "mountain"}
    ELSE {}

\* The call repeated with another terrain_type and equal other inputs.
WithTerrain(terrain) ==
    calculate_enhanced_risk_score(
        response.rainfall, response.temperature, response.soil_moisture,
        response.historical_data, terrain, response.vegetation_density)

\* C17: for equal other inputs, a terrain_type containing "mountain" (in any
\* letter case) yields a strictly higher terrain_factor, and a risk_score
\* that is not lower, than a terrain_type containing "plain" (and no
\* stronger keyword); when a terrain_type contains several keywords,
\* mountain takes precedence over hill, and hill over plain.
C17_TerrainPrecedence ==
    (response.op = "calculate_enhanced_risk_score" /\ WellTypedCall) =>
        LET kw == Keywords(response.terrain_type)
            terrain_factor ==
                response.result.factor_contributions.terrain_factor
        IN  /\ "mountain" \in kw => terrain_factor = 90
            /\ ("hill" \in kw /\ "mountain" \notin kw) => terrain_factor = 60
            /\ kw = {"plain"} => terrain_factor = 20
            /\ "mountain" \in kw =>
                   \A k \in 1..Len(FnTerrain) :
                       Keywords(FnTerrain[k]) = {"plain"} =>
                           LET other == WithTerrain(FnTerrain[k])
                           IN  /\ terrain_factor
                                      > other.factor_contributions.terrain_factor
                               /\ response.result.risk_score
                                      >= other.risk_score

\* A call on "plain HILL Mountain": it is scored as a mountain, 0.7 above
\* the same call on a plain.
C17_Witness ==
    /\ response.op = "calculate_enhanced_risk_score"
    /\ response.terrain_type = PlainHillMountain
    /\ response.result.factor_contributions.terrain_factor = 90
    /\ response.result.risk_score = WithTerrain(Plain).risk_score + 70

\* A resilience call for a name outside the six known ones, with no profile
\* supplied and a numeric risk_score.
DefaultProfileCall ==
    /\ response.op = "calculate_infrastructure_resilience"
    /\ response.location_name \notin KnownLocations
    /\ response.infrastructure_data = NoProfile
    /\ response.risk_score # None

\* 0.7*5.975 + 0.3*max(0, 10 - 0.5*risk_score), in 1/100000 (risk_score is
\* in hundredths).
StatedDefaultCentre ==
    418250 + 3 * Max(0, 100000 - 50 * response.risk_score)

\* round(max(0, min(10, x)), 2) in hundredths, for x in 1/100000.
ClampedRounded(x) == Nearest(Max(0, Min(1000000, x)), 1000)

\* C18: for a location name that is not one of the six known names (and no
\* profile supplied), calculate_infrastructure_resilience uses the fixed
\* default profile: the score is within 0.3 of
\* 0.7*5.975 + 0.3*max(0, 10 - 0.5*risk_score), clamped to [0, 10] (here
\* after the rounding to two decimals), it is the same for every such name,
\* and the returned factors other than risk_adaptability are the same on
\* every call.
C18_DefaultProfileResult ==
    DefaultProfileCall =>
        /\ ~response.result.raised
        /\ \E low \in ClampedRounded(StatedDefaultCentre - 30000) :
               response.result.resilience_score >= low
        /\ \E high \in ClampedRounded(StatedDefaultCentre + 30000) :
               response.result.resilience_score <= high
        /\ \A name \in FnNames \ KnownLocations :
               calculate_infrastructure_resilience(
                   name, response.risk_score, NoProfile, response.rnd
               ).resilience_score = response.result.resilience_score
        /\ response.result.factors.building_resilience = 450
        /\ response.result.factors.transportation_resilience = 650
        /\ response.result.factors.drainage_resilience = 600
        /\ response.result.factors.utility_resilience = 650
        /\ response.result.factors.emergency_readiness = 700
        /\ response.result.factors.maintenance_bonus = 0

\* "Lucknow" at risk 3.5 with the jitter draw 0.99:
\* 4.1825 + 0.3 * 8.25 + 0.294 = 6.9515, returned as 6.95.
C18_Witness ==
    /\ DefaultProfileCall
    /\ response.location_name = Lucknow
    /\ response.risk_score = 350 /\ response.rnd = 99
    /\ response.result.resilience_score = 695
    /\ response.result.factors.risk_adaptability = 825

\* C19 as stated: each of the five resilience sub-factors
\* (building_resilience, transportation_resilience, drainage_resilience,
\* utility_resilience, emergency_readiness) returned by
\* calculate_infrastructure_resilience lies in [0, 10], for every
\* infrastructure profile including a caller-supplied infrastructure_data.
C19_SubFactorsWithinRange ==
    (/\ response.op = "calculate_infrastructure_resilience"
     /\ ~response.result.raised)
        => /\ response.result.factors.building_resilience \in 0..1000
           /\ response.result.factors.transportation_resilience \in 0..1000
           /\ response.result.factors.drainage_resilience \in 0..1000
           /\ response.result.factors.utility_resilience \in 0..1000
           /\ response.result.factors.emergency_readiness \in 0..1000

\* C20: on any exception during scoring (a missing rainfall, temperature or
\* soil_moisture, or a terrain_type that is not a str)
\* calculate_enhanced_risk_score returns risk_score 0.0 with all six factor
\* contributions 0.0 and calculate_risk_score returns 0.0; the call returns
\* to its caller.
C20_ZeroResultOnException ==
    LET missing == \/ response.rainfall = None
                   \/ response.temperature = None
                   \/ response.soil_moisture = None
    IN  /\ (response.op = "calculate_risk_score" /\ missing)
               => response.result = 0
        /\ (/\ response.op = "calculate_enhanced_risk_score"
            /\ missing \/ response.terrain_type = NonStringTerrain)
               => /\ response.result.risk_score = 0
                  /\ \A f \in DOMAIN response.result.factor_contributions :
                         response.result.factor_contributions[f] = 0
                  /\ DOMAIN response.result.factor_contributions
                         = {"rainfall_factor", "soil_moisture_factor",
                            "temperature_factor", "terrain_factor",
                            "vegetation_factor", "historical_factor"}

\* An enhanced call with numeric readings, similar history and a
\* terrain_type that is not a str, answered with the all-zero result.
C20_Witness ==
    /\ response.op = "calculate_enhanced_risk_score"
    /\ response.rainfall = 41 /\ response.temperature = 23
    /\ response.soil_moisture = 40
    /\ response.terrain_type = NonStringTerrain
    /\ Len(response.historical_data) = 2
    /\ response.result = ZeroRiskData

\* The endpoints of the model that answer with a JSON object.
ApiResponses == {"update", "assess", "reset"}

\* The keys of the JSON object a response carries: the fields of `response`
\* other than the endpoint, the HTTP status, the request and what the run
\* logged.
JsonKeys ==
    DOMAIN response \ {"op", "code", "request", "error_logged", "discarded"}

\* C21 as stated: every JSON response of every /api/ endpoint has a status
\* field equal to "success" or "error", carries its payload under the key
\* data when status is success and its explanation under the key message
\* when status is error.
C21_ResponseEnvelope ==
    response.op \in ApiResponses =>
        /\ "status" \in JsonKeys
        /\ response.status \in {"success", "error"}
        /\ response.status = "success" => "data" \in JsonKeys
        /\ response.status = "error" => "message" \in JsonKeys

\* The request carried no JSON, or JSON that lacks one of rainfall,
\* temperature, soil_moisture, location_lat, location_lng.
InvalidBody(request) ==
    \/ ~request.json
    \/ \E i \in 1..Len(RequiredFields) : RequiredFields[i] \notin request.fields

\* C22 as stated: a POST to /api/update-sensor-data whose body is not JSON or
\* lacks any of rainfall, temperature, soil_moisture, location_lat,
\* location_lng is answered with status error and HTTP 400, and leaves the
\* store unchanged (no SensorData and no Alert row is added).
C22_InvalidBodyRejected ==
    [][(response'.op = "update" /\ InvalidBody(response'.request))
           => /\ response'.status = "error"
              /\ response'.code = 400
              /\ sensors' = sensors
              /\ alerts' = alerts]_vars

\* C23: a SensorData row is immutable once recorded: no operation of the
\* system (sensor update, assessment run, reset-demo-data /
\* init_sample_data) modifies or deletes an existing SensorData row.
C23_ReadingsImmutable ==
    [][/\ Len(sensors') >= Len(sensors)
       /\ \A i \in 1..Len(sensors) : sensors'[i] = sensors[i]]_vars

\* A second reading recorded at a later hour than the first, which is still
\* there with its own timestamp.
C23_Witness ==
    /\ response.op = "update" /\ response.status = "success"
    /\ Len(sensors) = 2
    /\ sensors[1].timestamp < sensors[2].timestamp

\* The sum of the six returned contributions, in hundredths.
ContributionSum ==
    LET f == response.result.factor_contributions
    IN  f.rainfall_factor + f.soil_moisture_factor + f.temperature_factor
            + f.terrain_factor + f.vegetation_factor + f.historical_factor

\* The weighted sum plus the historical bonus does not exceed 10, so the
\* clamp of the total does not act.
TotalNotClamped ==
    LET h == analyze_historical_data(response.rainfall, response.temperature,
                                     response.soil_moisture,
                                     response.historical_data)
    IN  StatedEnhancedSum * h[2] + 1000 * h[1] <= 10000 * h[2]

\* C24: for valid inputs every value in factor_contributions is
\* non-negative, and whenever the total is not clamped at 10 the returned
\* risk_score differs from the sum of the six returned contributions by at
\* most the rounding error (0.35).
C24_ContributionsSumToScore ==
    (/\ response.op = "calculate_enhanced_risk_score"
     /\ WellTypedCall /\ ValidReading /\ ValidVegetation)
        => /\ \A k \in DOMAIN response.result.factor_contributions :
                  response.result.factor_contributions[k] >= 0
           /\ TotalNotClamped =>
                  /\ response.result.risk_score - ContributionSum <= 35
                  /\ ContributionSum - response.result.risk_score <= 35

\* A valid call with a historical bonus and an unclamped total whose score
\* is not the sum of the rounded contributions but within 0.35 of it.
C24_Witness ==
    /\ response.op = "calculate_enhanced_risk_score"
    /\ WellTypedCall /\ ValidReading /\ ValidVegetation
    /\ TotalNotClamped
    /\ response.result.factor_contributions.historical_factor > 0
    /\ response.result.risk_score - ContributionSum >= 10

\* C25 as stated: init_sample_data initializes sample data only if the
\* database is empty: when it runs against a store that already holds data
\* (startup on an existing database, or /api/reset-demo-data), it leaves the
\* existing MonitoredLocation and RiskAssessment rows unchanged.
C25_ResetKeepsExistingRows ==
    [][(response'.op = "reset" /\ Len(zones) > 0 /\ Len(locations) > 0)
           => /\ locations' = locations
              /\ assessments' = assessments]_vars

\* The basic risk score of the reading a sensor update posted, in
\* hundredths, from the row it stored (the row with the id it answered).
PostedScore ==
    LET d == sensors[CHOOSE i \in 1..Len(sensors) :
                         sensors[i].id = response.id]
    IN  5 * Min(100, d.rainfall) + 3 * Min(100, d.soil_moisture)
            + 10 * Min(20, Max(d.temperature - 15, 15 - d.temperature))

\* C26: every Alert row persisted by the system has risk_level 8 or 10 (both
\* persisting call sites invoke generate_alert only when the score is
\* >= 5.0, so a MODERATE alert is never stored), and the alert_generated
\* flag of /api/update-sensor-data is true exactly when the computed basic
\* risk score is >= 5.0.
C26_OnlyHighAlertsStored ==
    /\ \A i \in 1..Len(alerts) : alerts[i].risk_level \in {8, 10}
    /\ (response.op = "update" /\ response.status = "success")
           => /\ response.risk_score = PostedScore
              /\ response.alert_generated <=> PostedScore >= 500

\* A reading scored exactly 5.0 was posted and its HIGH alert stored, after
\* which an assessment run scored a location in the MODERATE band without
\* storing anything for it.
C26_Witness ==
    /\ response.op = "assess" /\ ~response.error_logged
    /\ \E j \in 1..Len(response.data) :
           response.data[j].risk_score \in 300..499
    /\ Len(alerts) > 0
    /\ \E i \in 1..Len(alerts) : alerts[i].risk_level = 8

LocationNames(locs) == {locs[i].name : i \in 1..Len(locs)}

\* C27 as stated: resetting demo data is idempotent: a call of
\* init_sample_data on a store that an earlier call left behind (the first
\* of them on the empty store, at start-up) leaves the same set of
\* MonitoredLocation names and the same number of RiskZone and
\* EmergencyFacility rows as that earlier call did.
C27_ResetIdempotent ==
    [][response'.op = "reset"
           => /\ LocationNames(locations') = LocationNames(locations)
              /\ Len(zones') = Len(zones)
              /\ Len(facilities') = Len(facilities)]_vars

\* C28: referential integrity of assessments: in every committed state
\* reached by any sequence of requests executed one at a time
\* (init_sample_data / reset-demo-data, update-sensor-data,
\* assess-locations), each RiskAssessment.location_id equals the id of an
\* existing MonitoredLocation.
C28_AssessmentsReferToLocations ==
    \A i \in 1..Len(assessments) :
        \E j \in 1..Len(locations) :
            locations[j].id = assessments[i].location_id

\* Assessments of a run made after a reset, which left six locations: the
\* assessments of the eleven locations from before the reset are gone.
C28_Witness ==
    /\ response.op = "assess"
    /\ Len(locations) = Len(DistrictLocations)
    /\ Len(assessments) = Len(DistrictLocations)

\* C29: every RiskAssessment persisted by assess_multiple_locations has
\* historical_factor 0.0, whatever LandslideEvent rows are stored (the event
\* dictionaries carry no rainfall, temperature or soil_moisture keys and the
\* lookup failure is swallowed by analyze_historical_data), and so stored
\* historical events never change the risk score of a run: each score
\* returned is the score of the same reading without historical data, for
\* the location as the run read it.
C29_EventsNeverCount ==
    /\ \A i \in 1..Len(assessments) : assessments[i].historical_factor = 0
    /\ (response.op = "assess" /\ ~response.error_logged) =>
           \A j \in 1..Len(response.data) :
               LET result == response.data[j]
                   location == result.location
               IN  /\ result.factor_contributions.historical_factor = 0
                   /\ result.risk_score
                          = calculate_enhanced_risk_score(
                                result.sensor_data.rainfall,
                                result.sensor_data.temperature,
                                result.sensor_data.soil_moisture, <<>>,
                                location.terrain_type,
                                location.vegetation_density).risk_score

\* A run made with a LandslideEvent stored and a reading at hand: it
\* persisted an assessment for every location.
C29_Witness ==
    /\ Len(events) > 0
    /\ response.op = "assess" /\ ~response.error_logged
    /\ Len(response.data) = Len(locations)
    /\ Len(assessments) >= Len(locations)

\* C30 as stated: when /api/infrastructure-resilience is sent a risk_score
\* parameter, 0 included, the resilience is computed from exactly that
\* value and the response echoes it as risk_score; the fallback score is
\* used only when the parameter is absent.
C30_SuppliedScoreUsed ==
    (/\ response.op = "resilience"
     /\ response.status = "success"
     /\ response.request.risk_score # None)
        => /\ response.data.risk_score = response.request.risk_score
           /\ response.data =
                  calculate_infrastructure_resilience(
                      response.request.location,
                      response.request.risk_score, NoProfile, RandomDraws[1])

====
